---- MODULE Spec2Model ----
(***************************************************************************)
(* A model of the security-deposit ledger service: the ledger core         *)
(* (bank.py) over the sqlite store (database.py), and the session store    *)
(* (http_session_manager.py).                                              *)
(*                                                                         *)
(* Python values are tagged records [k, v]: k is the kind ("fin" a finite  *)
(* float, "nan", "inf", "ninf", "int" a Python int, "null" None / SQL      *)
(* NULL) and v the magnitude where the kind has one.                       *)
(***************************************************************************)
EXTENDS Integers, Sequences, FiniteSets, TLC

VARIABLES accounts, last, rt, sessions, session_file, now, ticks, issued, purged,
          destroyed, slast, conn, count, parse, console, procs, socks, alloc

vars == <<accounts, last, rt, sessions, session_file, now, ticks, issued, purged,
          destroyed, slast, conn, count, parse, console, procs, socks, alloc>>
ledger_vars == <<accounts, last, rt>>
session_vars == <<sessions, session_file, now, ticks, issued, purged, destroyed, slast>>
server_vars == <<conn, count, parse>>
process_vars == <<console, procs, socks, alloc>>

(***************************************************************************)
(* Floating point.  Python's float is IEEE-754 binary64; the model keeps   *)
(* its shape (a MantBits-bit significand, exponents 0..MaxExp, round to    *)
(* nearest, ties to even, overflow to infinity, NaN) at a small width.     *)
(* Finite floats are the integers m * 2^e with m < 2^MantBits.             *)
(***************************************************************************)
MantBits == 2
MaxExp == 2

RECURSIVE Pow2(_)
Pow2(n) == IF n <= 0 THEN 1 ELSE 2 * Pow2(n - 1)

MaxFinite == (Pow2(MantBits) - 1) * Pow2(MaxExp)

Fin(n) == [k |-> "fin", v |-> n]
NaN == [k |-> "nan", v |-> 0]
PosInf == [k |-> "inf", v |-> 0]
NegInf == [k |-> "ninf", v |-> 0]
Null == [k |-> "null", v |-> 0]
PyInt(n) == [k |-> "int", v |-> n]

\* sys.float_info.max
FloatMax == Fin(MaxFinite)

Abs(x) == IF x < 0 THEN 0 - x ELSE x

\* The exponent at which a magnitude is rounded: the least e with a < 2^(MantBits+e).
RECURSIVE ExpOf(_, _)
ExpOf(a, e) == IF a < Pow2(MantBits + e) THEN e ELSE ExpOf(a, e + 1)

\* Round an exact integer result to the nearest float, ties to even.
RoundMag(a) ==
    LET e == ExpOf(a, 0)
        q == a \div Pow2(e)
        r == a % Pow2(e)
        up == (2 * r > Pow2(e)) \/ (2 * r = Pow2(e) /\ q % 2 = 1)
    IN  (IF up THEN q + 1 ELSE q) * Pow2(e)

Round(x) ==
    LET m == RoundMag(Abs(x))
    IN  IF m > MaxFinite THEN (IF x < 0 THEN NegInf ELSE PosInf)
        ELSE Fin(IF x < 0 THEN 0 - m ELSE m)

IsFloat(x) == x.k \in {"fin", "nan", "inf", "ninf"}
IsInt(x) == x.k = "int"

\* a + b on floats
FAdd(a, b) ==
    IF a.k = "nan" \/ b.k = "nan" THEN NaN
    ELSE IF a.k = "inf" THEN (IF b.k = "ninf" THEN NaN ELSE PosInf)
    ELSE IF a.k = "ninf" THEN (IF b.k = "inf" THEN NaN ELSE NegInf)
    ELSE IF b.k \in {"inf", "ninf"} THEN b
    ELSE Round(a.v + b.v)

FNeg(a) ==
    IF a.k = "inf" THEN NegInf
    ELSE IF a.k = "ninf" THEN PosInf
    ELSE IF a.k = "fin" THEN Fin(0 - a.v)
    ELSE a

\* a - b on floats
FSub(a, b) == FAdd(a, FNeg(b))

\* a < b: false when either side is NaN
FLt(a, b) ==
    IF a.k = "nan" \/ b.k = "nan" THEN FALSE
    ELSE IF a.k = "ninf" THEN b.k # "ninf"
    ELSE IF a.k = "inf" THEN FALSE
    ELSE IF b.k = "inf" THEN TRUE
    ELSE IF b.k = "ninf" THEN FALSE
    ELSE a.v < b.v

FGt(a, b) == FLt(b, a)

\* A Python int compares with a float by value.
Num(x) == IF x.k = "int" THEN Fin(x.v) ELSE x

\* a != b: true when either side is NaN
FNe(a, b) == IF a.k = "nan" \/ b.k = "nan" THEN TRUE ELSE Num(a) # Num(b)

\* a >= 0 as a number: false of NaN and of NULL
NonNegative(x) == x.k = "inf" \/ (x.k = "fin" /\ x.v >= 0)

\* The finite non-negative floats.
Representable == {n \in 0..MaxFinite : RoundMag(n) = n}


(***************************************************************************)
(* Strings.  A Python str is a sequence of characters; account notes are   *)
(* sequences of note texts in which the text "\n\n" is the separator that  *)
(* deposit and withdraw insert.  None and "" are both the empty sequence:  *)
(* the code only ever tests them for truth and writes them back as read.   *)
(***************************************************************************)
Letters == {"J", "a", "n", "e", "D", "o"}

\* 64, the longest owner name (bank.py:11, bank.py:35)
MaxOwnerLen == 64

RECURSIVE Repeat(_, _)
Repeat(c, n) == IF n <= 0 THEN <<>> ELSE <<c>> \o Repeat(c, n - 1)

\* OWNER_NAME_PATTERN = '^[a-zA-Z ]{1,64}$' under re.match: '$' also matches
\* just before a newline that ends the string.
OWNER_NAME_PATTERN(s) ==
    LET body == IF Len(s) > 0 /\ s[Len(s)] = "\n" THEN SubSeq(s, 1, Len(s) - 1) ELSE s
    IN  /\ Len(body) >= 1
        /\ Len(body) <= MaxOwnerLen
        /\ \A i \in 1..Len(body) : body[i] \in Letters \cup {" "}

(***************************************************************************)
(* models.py                                                               *)
(***************************************************************************)
Roles == {"CUSTOMER", "BANKER"}

\* Account(account_num, owner_name, balance, notes): float(balance) raises
\* TypeError on None.
Account(account_num, owner_name, balance, notes) ==
    [account_num |-> account_num, owner_name |-> owner_name,
     balance |-> balance, notes |-> notes]

User(username, account_num, role) ==
    [is_user |-> TRUE, username |-> username, account_num |-> account_num, role |-> role]

\* A value that is not an instance of User (None).
NotAUser == [is_user |-> FALSE, username |-> "", account_num |-> 0, role |-> ""]

(***************************************************************************)
(* database.py.  The accounts table is the function `accounts` from        *)
(* account number (the primary key) to the row [owner, balance, notes].    *)
(***************************************************************************)
\* random.randint(100000, 999999): bank.py:56
MinAcctNum == 100000
MaxAcctNum == 999999
\* database.py:115
QuirkAcctNum == 935370

\* The account numbers the model draws its inputs from.
AcctNums == {MinAcctNum, QuirkAcctNum, MaxAcctNum}

\* sqlite3 binds a float NaN as NULL; an int bound to a REAL column is
\* stored as the float of the same value.
SqlReal(x) ==
    IF x.k = "nan" THEN Null
    ELSE IF x.k = "int" THEN Fin(x.v)
    ELSE x

\* SQL_inj_check is called by search_by_id and authenticate but defined
\* nowhere in the sources: it accepts the account numbers and user names that
\* bank.py passes.
SQL_inj_check(x) == TRUE

NoRecord == Account(0, <<>>, Null, <<>>)

\* Database.search_by_id: SELECT * FROM accounts WHERE account_num = ? with
\* acct_num bound to the placeholder, then Account(*row).  Returns [exc, found, acct]: exc is the exception raised
\* ("none" when it returns), found is FALSE when it returns None.
search_by_id(db, acct_num) ==
    IF ~SQL_inj_check(acct_num)
    THEN [exc |-> "ValueError", found |-> FALSE, acct |-> NoRecord]
    ELSE IF acct_num \notin DOMAIN db
    THEN [exc |-> "none", found |-> FALSE, acct |-> NoRecord]
    ELSE IF db[acct_num].balance.k = "null"
    THEN [exc |-> "TypeError", found |-> FALSE, acct |-> NoRecord]
    ELSE [exc |-> "none", found |-> TRUE,
          acct |-> Account(acct_num, db[acct_num].owner, db[acct_num].balance,
                           db[acct_num].notes)]

\* Database.create_account: the INSERT names account_num, owner and balance,
\* which are bound nowhere: NameError, and nothing is inserted.
Database_create_account(db, acct) ==
    [exc |-> "NameError", db |-> db]

\* Database.update_account: account 935370 has its balance set to 0 before
\* the UPDATE; no row updated returns None (some = FALSE).  Returns
\* [some, result, db].
\* The UPDATE without its WHERE clause (a mutant: every row is overwritten)
update_account_AllRows(db, acct) ==
    [some |-> acct.account_num \in DOMAIN db, result |-> acct,
     db |-> [n \in DOMAIN db |-> [owner |-> acct.owner_name,
                                  balance |-> SqlReal(acct.balance),
                                  notes |-> acct.notes]]]

update_account(db, acct) ==
    LET a == IF acct.account_num = QuirkAcctNum
             THEN [acct EXCEPT !.balance = PyInt(0)]
             ELSE acct
    IN  IF a.account_num \notin DOMAIN db
        THEN [some |-> FALSE, result |-> a, db |-> db]
        ELSE [some |-> TRUE, result |-> a,
              db |-> [db EXCEPT ![a.account_num] =
                        [owner |-> a.owner_name, balance |-> SqlReal(a.balance),
                         notes |-> a.notes]]]

\* The table after another writer of the database file deletes a row.
DeleteRow(db, n) == [m \in DOMAIN db \ {n} |-> db[m]]

(***************************************************************************)
(* bank.py.  Every operation returns [outcome, ret, db, io]: outcome is    *)
(* "ok" or the exception raised, ret the Account returned, db the table    *)
(* after the call, io what passed between the operation and the store's    *)
(* update_account: whether it was called (wrote), whether it returned an   *)
(* Account (some), the balance of that Account (reported) and acct.balance *)
(* (expected).                                                             *)
(***************************************************************************)
NoIO == [wrote |-> FALSE, some |-> FALSE, reported |-> Null, expected |-> Null]

Raise(exc, db) == [outcome |-> exc, ret |-> NoRecord, db |-> db, io |-> NoIO]

Return(acct, db) == [outcome |-> "ok", ret |-> acct, db |-> db, io |-> NoIO]

\* not (amount < 0 or amount > sys.float_info.max)
AmountInRange(amount) == ~(FLt(amount, Fin(0)) \/ FGt(amount, FloatMax))

\* not (user.role != Role.BANKER and not (user.role == Role.CUSTOMER and
\*      user.account_num == acct.account_num))
Permitted(user, acct) ==
    ~(user.role # "BANKER"
      /\ ~(user.role = "CUSTOMER" /\ user.account_num = acct.account_num))

\* acct.notes = notes in place of the append (a mutant: the log is overwritten)
AppendNotes_Replace(old, notes) == IF notes # <<>> THEN notes ELSE old

\* if notes: acct.notes = acct.notes + "\n\n" + notes if acct.notes else notes
AppendNotes(old, notes) ==
    IF notes # <<>>
    THEN (IF old # <<>> THEN old \o <<"\n\n">> \o notes ELSE notes)
    ELSE old

\* The write-back with the previous row put back after a mismatch (a mutant:
\* the failed write is undone)
WriteBack_Restores(db, acct, lost) ==
    LET u == update_account(db, acct)
        io == [wrote |-> TRUE, some |-> u.some,
               reported |-> IF u.some THEN u.result.balance ELSE Null,
               expected |-> acct.balance]
    IN  IF ~u.some THEN [Raise("AttributeError", u.db) EXCEPT !.io = io]
        ELSE IF FNe(u.result.balance, acct.balance)
        THEN [Raise("RuntimeError", db) EXCEPT !.io = io]
        ELSE [Return(acct, u.db) EXCEPT !.io = io]

\* The write-back and its verification, shared by deposit and withdraw:
\* copy = Account(...); result = db.update_account(copy);
\* if result.balance != acct.balance: raise RuntimeError.  `lost` is TRUE when
\* another writer deleted the row after search_by_id read it.
WriteBack(db, acct, lost) ==
    LET u == update_account(IF lost THEN DeleteRow(db, acct.account_num) ELSE db, acct)
        io == [wrote |-> TRUE, some |-> u.some,
               reported |-> IF u.some THEN u.result.balance ELSE Null,
               expected |-> acct.balance]
    IN  IF ~u.some THEN [Raise("AttributeError", u.db) EXCEPT !.io = io]
        ELSE IF FNe(u.result.balance, acct.balance)
        THEN [Raise("RuntimeError", u.db) EXCEPT !.io = io]
        ELSE [Return(acct, u.db) EXCEPT !.io = io]

\* user.role != Role.BANKER fails create_account (a mutant: the check is gone)
IsBanker_Anyone(user) == TRUE

IsBanker(user) == user.role = "BANKER"

\* acct.balance < amount fails withdraw (a mutant: the check is gone)
Overdrawn_Never(acct, amount) == FALSE

Overdrawn(acct, amount) == FLt(acct.balance, amount)

\* new_id is the draw of random.randint that ends the loop: a number for
\* which search_by_id does not return an account.  owner_name is a str, as
\* both callers pass one.
create_account(db, owner_name, balance, user, new_id) ==
    IF owner_name = <<>> \/ Len(owner_name) > MaxOwnerLen \/ ~OWNER_NAME_PATTERN(owner_name)
    THEN Raise("ValueError", db)
    ELSE IF ~IsFloat(balance) THEN Raise("TypeError", db)
    ELSE IF ~AmountInRange(balance) THEN Raise("ValueError", db)
    ELSE IF ~user.is_user THEN Raise("TypeError", db)
    ELSE IF ~IsBanker(user) THEN Raise("PermissionError", db)
    ELSE LET s == search_by_id(db, new_id)
         IN  IF s.exc # "none" THEN Raise(s.exc, db)
             ELSE LET c == Database_create_account(db, Account(new_id, owner_name, balance, <<>>))
                  IN  IF c.exc # "none" THEN Raise(c.exc, c.db)
                      ELSE Return(Account(new_id, owner_name, balance, <<>>), c.db)

deposit(db, account_num, amount, notes, user, lost) ==
    IF ~IsInt(account_num) THEN Raise("TypeError", db)
    ELSE IF ~IsFloat(amount) THEN Raise("TypeError", db)
    ELSE IF ~AmountInRange(amount) THEN Raise("ValueError", db)
    ELSE IF ~user.is_user THEN Raise("TypeError", db)
    ELSE LET s == search_by_id(db, account_num.v)
         IN  IF s.exc # "none" THEN Raise(s.exc, db)
             ELSE IF ~s.found THEN Raise("ValueError", db)
             ELSE IF ~Permitted(user, s.acct) THEN Raise("PermissionError", db)
             ELSE WriteBack(db, [s.acct EXCEPT !.balance = FAdd(@, amount),
                                               !.notes = AppendNotes(@, notes)], lost)

withdraw(db, account_num, amount, notes, user, lost) ==
    IF ~IsInt(account_num) THEN Raise("TypeError", db)
    ELSE IF ~IsFloat(amount) THEN Raise("TypeError", db)
    ELSE IF ~AmountInRange(amount) THEN Raise("ValueError", db)
    ELSE IF ~user.is_user THEN Raise("TypeError", db)
    ELSE LET s == search_by_id(db, account_num.v)
         IN  IF s.exc # "none" THEN Raise(s.exc, db)
             ELSE IF ~s.found THEN Raise("ValueError", db)
             ELSE IF ~Permitted(user, s.acct) THEN Raise("PermissionError", db)
             ELSE IF Overdrawn(s.acct, amount) THEN Raise("ValueError", db)
             ELSE WriteBack(db, [s.acct EXCEPT !.balance = FSub(@, amount),
                                               !.notes = AppendNotes(@, notes)], lost)

get_account(db, account_num, user) ==
    IF ~IsInt(account_num) THEN Raise("TypeError", db)
    ELSE IF ~user.is_user THEN Raise("TypeError", db)
    ELSE LET s == search_by_id(db, account_num.v)
         IN  IF s.exc # "none" THEN Raise(s.exc, db)
             ELSE IF ~s.found THEN Raise("ValueError", db)
             ELSE IF ~Permitted(user, s.acct) THEN Raise("PermissionError", db)
             ELSE Return(s.acct, db)

(***************************************************************************)
(* The callers' inputs.                                                    *)
(***************************************************************************)
\* The longest notes the model lets an account accumulate, in entries.
MaxNotes == 2

Banker == User("admin", MaxAcctNum, "BANKER")
Customer(n) == User("customer", n, "CUSTOMER")
Actors == {Banker, NotAUser} \cup {Customer(n) : n \in AcctNums}

AcctInputs == {PyInt(n) : n \in AcctNums} \cup {Fin(MinAcctNum)}
AmountInputs == {Fin(0 - 1), Fin(0), Fin(1), Fin(2), FloatMax, NaN, PosInf, PyInt(1)}
NoteInputs == {<<>>, <<"payroll">>}
OwnerInputs == {<<>>, <<"J", "a", "n", "e", " ", "D", "o", "e">>, <<"J", "4", "n", "e">>,
                <<"J", "a", "n", "e", "\n">>, Repeat("a", MaxOwnerLen + 1)}
BalanceInputs == {Fin(0 - 1), Fin(1), NaN, PyInt(1)}

Row(balance) == [owner |-> <<"J", "a", "n", "e">>, balance |-> balance, notes |-> <<>>]

\* The number of entries in an account's notes.
NoteCount(s) == (Len(s) + 1) \div 2

\* Appending `notes` to the notes of account n keeps them within MaxNotes.
NotesFit(n, notes) ==
    IF notes = <<>> \/ n.k # "int" THEN TRUE
    ELSE IF n.v \notin DOMAIN accounts THEN TRUE
    ELSE NoteCount(accounts[n.v].notes) < MaxNotes

NoCall ==
    [op |-> "none", account_num |-> PyInt(0), amount |-> Fin(0), notes |-> <<>>,
     owner_name |-> <<>>, user |-> NotAUser, lost |-> FALSE, outcome |-> "none",
     ret |-> NoRecord, io |-> NoIO, pre |-> <<>>]

RtIdle ==
    [phase |-> "idle", account_num |-> 0, amount |-> Fin(0), before |-> Fin(0),
     user |-> NotAUser, w_outcome |-> "none", d_outcome |-> "none"]

(***************************************************************************)
(* The ledger's actions: one call of a bank.py operation each.  `last`     *)
(* records the call, its outcome and the table before it.                  *)
(***************************************************************************)
Called(op, account_num, amount, notes, owner_name, user, lost, r) ==
    /\ accounts' = r.db
    /\ last' = [op |-> op, account_num |-> account_num, amount |-> amount,
                notes |-> notes, owner_name |-> owner_name, user |-> user,
                lost |-> lost, outcome |-> r.outcome, ret |-> r.ret, io |-> r.io,
                pre |-> accounts]

CreateAccount ==
    /\ last.op = "none"
    /\ \E owner_name \in OwnerInputs, balance \in BalanceInputs, user \in Actors :
           \E new_id \in {n \in AcctNums : ~search_by_id(accounts, n).found} :
            /\ Called("create_account", PyInt(0), balance, <<>>, owner_name, user, FALSE,
                      create_account(accounts, owner_name, balance, user, new_id))
            /\ UNCHANGED <<rt, session_vars, server_vars, process_vars>>

Deposit ==
    /\ last.op = "none"
    /\ \E account_num \in AcctInputs, amount \in AmountInputs, notes \in NoteInputs,
          user \in Actors :
        /\ NotesFit(account_num, notes)
        /\ Called("deposit", account_num, amount, notes, <<>>, user, FALSE,
                  deposit(accounts, account_num, amount, notes, user, FALSE))
        /\ UNCHANGED <<rt, session_vars, server_vars, process_vars>>

Withdraw ==
    /\ last.op = "none"
    /\ \E account_num \in AcctInputs, amount \in AmountInputs, notes \in NoteInputs,
          user \in Actors :
        /\ NotesFit(account_num, notes)
        /\ Called("withdraw", account_num, amount, notes, <<>>, user, FALSE,
                  withdraw(accounts, account_num, amount, notes, user, FALSE))
        /\ UNCHANGED <<rt, session_vars, server_vars, process_vars>>

GetAccount ==
    /\ last.op = "none"
    /\ \E account_num \in AcctInputs, user \in Actors :
        /\ Called("get_account", account_num, Fin(0), <<>>, <<>>, user, FALSE,
                  get_account(accounts, account_num, user))
        /\ UNCHANGED <<rt, session_vars, server_vars, process_vars>>

\* The caller has taken the result: the record of the call is cleared.
Returned ==
    /\ last.op # "none"
    /\ last' = [NoCall EXCEPT !.pre = accounts]
    /\ UNCHANGED <<accounts, rt, session_vars, server_vars, process_vars>>

\* A deposit or withdraw during which another writer of the database file
\* deletes the target row between the SELECT and the UPDATE.
DepositRowLost ==
    /\ last.op = "none"
    /\ \E account_num \in AcctInputs, amount \in AmountInputs, user \in Actors :
        /\ deposit(accounts, account_num, amount, <<>>, user, FALSE).outcome
               \in {"ok", "RuntimeError"}
        /\ Called("deposit", account_num, amount, <<>>, <<>>, user, TRUE,
                  deposit(accounts, account_num, amount, <<>>, user, TRUE))
        /\ UNCHANGED <<rt, session_vars, server_vars, process_vars>>

WithdrawRowLost ==
    /\ last.op = "none"
    /\ \E account_num \in AcctInputs, amount \in AmountInputs, user \in Actors :
        /\ withdraw(accounts, account_num, amount, <<>>, user, FALSE).outcome
               \in {"ok", "RuntimeError"}
        /\ Called("withdraw", account_num, amount, <<>>, <<>>, user, TRUE,
                  withdraw(accounts, account_num, amount, <<>>, user, TRUE))
        /\ UNCHANGED <<rt, session_vars, server_vars, process_vars>>

(***************************************************************************)
(* A caller that withdraws an amount from an account and then deposits the *)
(* same amount into it; `rt` records the two calls.                        *)
(***************************************************************************)
RoundTripAmounts == {Fin(n) : n \in Representable} \cup {Fin(0 - 1), NaN}

RoundTripWithdraw ==
    /\ rt.phase = "idle"
    /\ \E n \in DOMAIN accounts, amount \in RoundTripAmounts, user \in Actors :
           LET r == withdraw(accounts, PyInt(n), amount, <<>>, user, FALSE)
           IN  /\ accounts' = r.db
               /\ rt' = [phase |-> "withdrawn", account_num |-> n, amount |-> amount,
                         before |-> accounts[n].balance, user |-> user,
                         w_outcome |-> r.outcome, d_outcome |-> "none"]
               /\ UNCHANGED <<last, session_vars, server_vars, process_vars>>

RoundTripDeposit ==
    /\ rt.phase = "withdrawn"
    /\ LET r == deposit(accounts, PyInt(rt.account_num), rt.amount, <<>>, rt.user, FALSE)
       IN  /\ accounts' = r.db
           /\ rt' = [rt EXCEPT !.phase = "done", !.d_outcome = r.outcome]
           /\ UNCHANGED <<last, session_vars, server_vars, process_vars>>

\* The caller starts over from the table as it now is.
RoundTripAgain ==
    /\ rt.phase = "done"
    /\ rt' = RtIdle
    /\ UNCHANGED <<accounts, last, session_vars, server_vars, process_vars>>

(***************************************************************************)
(* http_session_manager.py.  `sessions` is HttpSessionManager._sessions,   *)
(* a function from session id to Session [user, expiration];               *)
(* `session_file` is database/sessions.pickle; `now` is time.time().       *)
(* Session ids are base64 of 128 bytes of os.urandom: a new id is one      *)
(* never issued before; `issued` gives, for every id issued so far, the   *)
(* user create_session was called with and the time of that call, for as   *)
(* long as the id is in _sessions or in the file (Issue), and NoIssue from *)
(* then on.                                                                *)
(***************************************************************************)
\* The number of session ids the model issues, and of clock steps it takes.
MaxTokens == 2
MaxTicks == 3

\* expiration = time.time() + 3600
SessionLifetime == 3600

Tokens == 1..MaxTokens

\* The request headers, as far as the session manager reads them: whether
\* there is a Cookie header, and the value of its SD-SessionID cookie (0 when
\* the Cookie header carries no SD-SessionID).
NoCookieHeader == [has_cookie |-> FALSE, sid |-> 0]
CookieHeader(sid) == [has_cookie |-> TRUE, sid |-> sid]
HeaderInputs == {NoCookieHeader} \cup {CookieHeader(s) : s \in 0..MaxTokens}

SessionUsers == {Banker, Customer(MinAcctNum)}

\* Session(user, expiration) that binds the banker instead (a mutant)
Session_Banker(user, expiration) == [user |-> Banker, expiration |-> expiration]

Session(user, expiration) == [user |-> user, expiration |-> expiration]

\* The cookies the session manager hands back.
NoCookie == [set |-> FALSE, value |-> 0, expires |-> 0, deleted |-> FALSE]
SessionCookie(sid, expiration) ==
    [set |-> TRUE, value |-> sid, expires |-> expiration, deleted |-> FALSE]
\* cookie[_SESSION_ID] = 'deleted'; cookie[_SESSION_ID]['expires'] = 0
DeletedCookie == [set |-> TRUE, value |-> 0, expires |-> 0, deleted |-> TRUE]

NoFile == [exists |-> FALSE, data |-> <<>>]

\* _write_sessions without the dump (a mutant: nothing is persisted)
_write_sessions_Never(s) == NoFile

\* HttpSessionManager._write_sessions: pickle.dump(self._sessions, file)
_write_sessions(s) == [exists |-> TRUE, data |-> s]

\* HttpSessionManager.__init__: load the snapshot if the file exists.
HttpSessionManager(file) == IF file.exists THEN file.data ELSE <<>>

\* del self._sessions[...] left out (a mutant: the session stays)
Remove_Keeps(s, sid) == s

Remove(s, sid) == [t \in DOMAIN s \ {sid} |-> s[t]]

Put(s, sid, session) == [t \in DOMAIN s \cup {sid} |-> IF t = sid THEN session ELSE s[t]]

\* The session operations return [outcome, user, cookie, sessions, file].
SessionResult(outcome, user, cookie, s, file) ==
    [outcome |-> outcome, user |-> user, cookie |-> cookie, sessions |-> s, file |-> file]

\* session_id is the id os.urandom yields, time is time.time().
create_session(s, file, user, headers, session_id, time) ==
    LET s1 == IF headers.has_cookie /\ headers.sid # 0 /\ headers.sid \in DOMAIN s
              THEN Remove(s, headers.sid)
              ELSE s
        expiration == time + SessionLifetime
        s2 == Put(s1, session_id, Session(user, expiration))
    IN  SessionResult("ok", user, SessionCookie(session_id, expiration), s2,
                      _write_sessions(s2))

\* headers['Cookie'] raises KeyError when there is no Cookie header.
delete_session(s, file, headers) ==
    IF ~headers.has_cookie THEN SessionResult("KeyError", NotAUser, NoCookie, s, file)
    ELSE LET s1 == IF headers.sid # 0 /\ headers.sid \in DOMAIN s
                   THEN Remove(s, headers.sid)
                   ELSE s
         IN  SessionResult("ok", NotAUser, DeletedCookie, s1, _write_sessions(s1))

\* server.py do_logout: delete_session only if the request has a Cookie
\* header; 200 OK either way, with the cookie delete_session returned if any.
do_logout(s, file, headers) ==
    IF headers.has_cookie
    THEN delete_session(s, file, headers)
    ELSE SessionResult("ok", NotAUser, NoCookie, s, file)

\* self._sessions[session_id].expiration < time.time() (a mutant: <=)
Expired_AtExpiration(session, time) == session.expiration <= time

Expired(session, time) == session.expiration < time

\* del self._sessions[session_id] of an expired session (a mutant: it stays)
Purge_Keeps(s, sid) == s

\* The purge that empties the store (a mutant)
Purge_All(s, sid) == <<>>

Purge(s, sid) == Remove(s, sid)

\* authenticate that extends the session it accepts (a mutant)
authenticate_Refreshes(s, file, headers, time) ==
    IF ~headers.has_cookie
    THEN SessionResult("Unauthorized", NotAUser, NoCookie, s, file)
    ELSE IF headers.sid = 0 \/ headers.sid \notin DOMAIN s
    THEN SessionResult("Unauthorized", NotAUser, NoCookie, s, file)
    ELSE IF Expired(s[headers.sid], time)
    THEN SessionResult("Unauthorized", NotAUser, DeletedCookie, Purge(s, headers.sid), file)
    ELSE LET s1 == Put(s, headers.sid, Session(s[headers.sid].user, time + SessionLifetime))
         IN  SessionResult("ok", s[headers.sid].user, NoCookie, s1, _write_sessions(s1))

authenticate(s, file, headers, time) ==
    IF ~headers.has_cookie
    THEN SessionResult("Unauthorized", NotAUser, NoCookie, s, file)
    ELSE IF headers.sid = 0 \/ headers.sid \notin DOMAIN s
    THEN SessionResult("Unauthorized", NotAUser, NoCookie, s, file)
    ELSE IF Expired(s[headers.sid], time)
    THEN SessionResult("Unauthorized", NotAUser, DeletedCookie, Purge(s, headers.sid), file)
    ELSE SessionResult("ok", s[headers.sid].user, NoCookie, s, _write_sessions(s))

\* The sessions removed by a logout or replaced by a login, with the expiration
\* each had: `destroyed` after a call with `headers` on the sessions s.
Destroy(d, s, headers) ==
    IF headers.has_cookie /\ headers.sid # 0 /\ headers.sid \in DOMAIN s
    THEN Put(d, headers.sid, s[headers.sid].expiration)
    ELSE d

\* What is kept of the calls of create_session: `i` after a step that
\* leaves the sessions s and the file `file`.
NoIssue == [user |-> NotAUser, time |-> 0]

Issue(i, s, file) ==
    [t \in DOMAIN i |-> IF t \in DOMAIN s \cup DOMAIN file.data THEN i[t] ELSE NoIssue]

NoSessionCall ==
    [op |-> "none", headers |-> NoCookieHeader, outcome |-> "none", user |-> NotAUser,
     cookie |-> NoCookie, time |-> 0, pre |-> <<>>, pre_purged |-> {},
     pre_destroyed |-> <<>>]

SessionCalled(op, headers, r) ==
    /\ sessions' = r.sessions
    /\ session_file' = r.file
    /\ slast' = [op |-> op, headers |-> headers, outcome |-> r.outcome, user |-> r.user,
                 cookie |-> r.cookie, time |-> now, pre |-> sessions,
                 pre_purged |-> purged, pre_destroyed |-> destroyed]

\* The ids os.urandom can yield next: any id never issued.  Ids are opaque, so
\* the model names them in the order of their issue.
NewTokens(used) == {t \in Tokens \ used : \A u \in Tokens \ used : t <= u}

CreateSession ==
    /\ slast.op = "none"
    /\ \E user \in SessionUsers, headers \in HeaderInputs, session_id \in NewTokens(DOMAIN issued) :
        /\ SessionCalled("create_session", headers,
                         create_session(sessions, session_file, user, headers, session_id, now))
        /\ issued' = Issue(Put(issued, session_id, [user |-> user, time |-> now]),
                            sessions', session_file')
        /\ destroyed' = Destroy(destroyed, sessions, headers)
        /\ UNCHANGED <<now, ticks, purged, ledger_vars, server_vars, process_vars>>

DeleteSession ==
    /\ slast.op = "none"
    /\ \E headers \in HeaderInputs :
        /\ SessionCalled("delete_session", headers,
                         delete_session(sessions, session_file, headers))
        /\ destroyed' = Destroy(destroyed, sessions, headers)
        /\ issued' = Issue(issued, sessions', session_file')
        /\ UNCHANGED <<now, ticks, purged, ledger_vars, server_vars, process_vars>>

\* GET /logout
Logout ==
    /\ slast.op = "none"
    /\ \E headers \in HeaderInputs :
        /\ SessionCalled("do_logout", headers, do_logout(sessions, session_file, headers))
        /\ destroyed' = Destroy(destroyed, sessions, headers)
        /\ issued' = Issue(issued, sessions', session_file')
        /\ UNCHANGED <<now, ticks, purged, ledger_vars, server_vars, process_vars>>

Authenticate ==
    /\ slast.op = "none"
    /\ \E headers \in HeaderInputs :
        LET r == authenticate(sessions, session_file, headers, now)
        IN  /\ SessionCalled("authenticate", headers, r)
            /\ purged' = IF r.cookie.deleted THEN purged \cup {headers.sid} ELSE purged
            /\ issued' = Issue(issued, sessions', session_file')
            /\ UNCHANGED <<now, ticks, destroyed, ledger_vars, server_vars, process_vars>>

\* The caller has taken the result: the record of the call is cleared.
SessionReturned ==
    /\ slast.op # "none"
    /\ slast' = NoSessionCall
    /\ UNCHANGED <<sessions, session_file, now, ticks, issued, purged, destroyed,
                   ledger_vars, server_vars, process_vars>>

\* The clock advances.
Tick ==
    /\ slast.op = "none"
    /\ \E d \in {1, SessionLifetime - 1, SessionLifetime} :
        /\ ticks < MaxTicks
        /\ now' = now + d
        /\ ticks' = ticks + 1
        /\ UNCHANGED <<sessions, session_file, issued, purged, destroyed, slast,
                       ledger_vars, server_vars, process_vars>>

\* The server process is restarted: a new HttpSessionManager is constructed.
Restart ==
    /\ slast.op = "none"
    /\ sessions' = HttpSessionManager(session_file)
    /\ slast' = [NoSessionCall EXCEPT !.op = "restart", !.time = now, !.pre = sessions,
                                      !.pre_purged = purged,
                                      !.pre_destroyed = destroyed]
    /\ issued' = Issue(issued, sessions', session_file)
    /\ UNCHANGED <<session_file, now, ticks, purged, destroyed, ledger_vars, server_vars,
                   process_vars>>

(***************************************************************************)
(* http_responses.py: the status codes of the responses.                   *)
(***************************************************************************)
OK == 200
BadRequest == 400
Unauthorized == 401
Forbidden == 403
NotFound == 404
TooManyRequests == 429
InternalServerError == 500
NotImplementedStatus == 501

(***************************************************************************)
(* server.py.  A request is what main reads from the connection:           *)
(*   raw       "ok", "undecodable" (bytes that are not UTF-8) or           *)
(*             "malformed" (parse_request raises BadRequest);              *)
(*   method, resource, headers   as parse_request returns them;            *)
(*   q         the query string or body: "empty", "malformed" (a parameter *)
(*             without '=') or "params";                                   *)
(*   account_num, amount, balance   parameter values [k, v]: k "absent",   *)
(*             "text" (neither digits nor a float literal), "dec" (decimal *)
(*             digits) or the float that float() reads from the value;     *)
(*   owner_name, username, password   [present, s].                        *)
(***************************************************************************)
Absent == [k |-> "absent", v |-> 0]
Text == [k |-> "text", v |-> 0]
Dec(n) == [k |-> "dec", v |-> n]

NoStr == [present |-> FALSE, s |-> <<>>]
Str(s) == [present |-> TRUE, s |-> s]

Request(method, resource, headers, q, account_num, amount, owner_name, username, password) ==
    [raw |-> "ok", method |-> method, resource |-> resource, headers |-> headers, q |-> q,
     account_num |-> account_num, amount |-> amount, owner_name |-> owner_name,
     username |-> username, password |-> password]

NoRequest == Request("", "", NoCookieHeader, "empty", Absent, Absent, NoStr, NoStr, NoStr)

\* float(params['amount']): ValueError for text, the float of the digits, or
\* the float the literal denotes
py_float(p) ==
    IF p.k = "text" THEN [exc |-> "ValueError", value |-> Null]
    ELSE IF p.k = "dec" THEN [exc |-> "none", value |-> Round(p.v)]
    ELSE [exc |-> "none", value |-> p]

\* bleach.clean on a string of characters: markup characters are escaped
RECURSIVE bleach_clean(_)
bleach_clean(s) ==
    IF s = <<>> THEN <<>>
    ELSE (IF Head(s) = "<" THEN <<"&", "l", "t", ";">>
          ELSE IF Head(s) = ">" THEN <<"&", "g", "t", ";">>
          ELSE IF Head(s) = "&" THEN <<"&", "a", "m", "p", ";">>
          ELSE <<Head(s)>>) \o bleach_clean(Tail(s))

\* The users table: one customer, the owner of account MinAcctNum.  The
\* stored password is the salted SHA3-256 of the password.
Hashed(password, salt) == <<"sha3_256", password, salt>>

Users ==
    {[username |-> <<"c">>, user |-> Customer(MinAcctNum),
      password |-> Hashed(<<"p">>, "salt")]}

\* Database.authenticate over the users table `users`
db_authenticate(users, username, password) ==
    LET found == {u \in users : u.username = username}
    IN  IF ~SQL_inj_check(username) THEN NotAUser
        ELSE IF found = {} THEN NotAUser
        ELSE LET u == CHOOSE x \in found : TRUE
             IN  IF u.password # Hashed(password, "salt") THEN NotAUser ELSE u.user

get_SUPPORT_UN == <<"a", "d", "m", "i", "n">>
get_SUPPORT_PW == <<"a", "d", "m", "i", "n">>

\* bank.login without the comparison with get_SUPPORT_UN and get_SUPPORT_PW
\* (a mutant: only the users table lets one in)
login_NoBypass(users, username, password) ==
    LET user == db_authenticate(users, username, password)
    IN  IF ~user.is_user THEN [outcome |-> "ValueError", user |-> NotAUser]
        ELSE [outcome |-> "ok", user |-> user]

\* bank.login that lets every pair of credentials in (a mutant)
login_Anyone(users, username, password) == [outcome |-> "ok", user |-> Customer(MinAcctNum)]

\* bank.login: [outcome, user]
login(users, username, password) ==
    IF username = get_SUPPORT_UN /\ password = get_SUPPORT_PW
    THEN [outcome |-> "ok", user |-> Banker]
    ELSE LET user == db_authenticate(users, username, password)
         IN  IF ~user.is_user THEN [outcome |-> "ValueError", user |-> NotAUser]
             ELSE [outcome |-> "ok", user |-> user]

\* What a handler has done: the response status (0 while there is none), an
\* exception no handler caught, the cookie of the response, the ledger and the
\* session store as it leaves them, its call of authenticate and its call of
\* the ledger.
NoAuth == [called |-> FALSE, outcome |-> "none", user |-> NotAUser]
NoLedger == [called |-> FALSE, op |-> "none", user |-> NotAUser, outcome |-> "none"]

Handling(db, s, file) ==
    [status |-> 0, exc |-> "none", cookie |-> NoCookie, db |-> db, sessions |-> s,
     file |-> file, auth |-> NoAuth, ledger |-> NoLedger, created |-> FALSE]

Respond(r, status) == [r EXCEPT !.status = status]
Uncaught(r, exc) == [r EXCEPT !.exc = exc]

\* authenticate that lets every request through as the banker (a mutant)
user_token_Anyone(s, file, headers, time) == SessionResult("ok", Banker, NoCookie, s, file)

\* user_token = _session_manager.authenticate(headers)
user_token(s, file, headers, time) == authenticate(s, file, headers, time)

\* The first statement of the four ledger handlers: Unauthorized propagates.
Authenticated(db, s, file, headers, time) ==
    LET a == user_token(s, file, headers, time)
    IN  [Handling(db, a.sessions, a.file) EXCEPT
            !.auth = [called |-> TRUE, outcome |-> a.outcome, user |-> a.user],
            !.cookie = a.cookie,
            !.status = IF a.outcome = "ok" THEN 0 ELSE Unauthorized]

\* every exception of the ledger answered as 400 (a mutant)
StatusOf_BadRequest(outcome, type_error_caught) == IF outcome = "ok" THEN OK ELSE BadRequest

\* The except clauses around the ledger call: the status of the response, 0
\* for an exception that none of them catches.  do_get_account_info does not
\* catch TypeError.
StatusOf(outcome, type_error_caught) ==
    IF outcome = "ok" THEN OK
    ELSE IF outcome = "ValueError" THEN BadRequest
    ELSE IF outcome = "TypeError" /\ type_error_caught THEN BadRequest
    ELSE IF outcome = "PermissionError" THEN Forbidden
    ELSE IF outcome = "RuntimeError" THEN InternalServerError
    ELSE 0

\* The ledger operation `op` was called by `user` and ended as `res`.
LedgerCall(r, op, user, res, type_error_caught) ==
    LET status == StatusOf(res.outcome, type_error_caught)
    IN  [r EXCEPT !.ledger = [called |-> TRUE, op |-> op, user |-> user,
                              outcome |-> res.outcome],
                  !.db = res.db,
                  !.status = status,
                  !.exc = IF status = 0 THEN res.outcome ELSE "none"]

do_get_account_info(db, s, file, req, time) ==
    LET r == Authenticated(db, s, file, req.headers, time)
    IN  IF r.auth.outcome # "ok" THEN r
        ELSE IF req.q # "params" THEN Respond(r, BadRequest)
        ELSE IF req.account_num.k # "dec" THEN Respond(r, BadRequest)
        ELSE LedgerCall(r, "get_account", r.auth.user,
                        get_account(r.db, PyInt(req.account_num.v), r.auth.user), FALSE)

do_create_account(db, s, file, req, time, new_id) ==
    LET r == Authenticated(db, s, file, req.headers, time)
        balance == py_float(req.amount)
    IN  IF r.auth.outcome # "ok" THEN r
        ELSE IF req.q # "params" THEN Respond(r, BadRequest)
        ELSE IF ~req.owner_name.present THEN Respond(r, BadRequest)
        ELSE IF req.amount.k = "absent" THEN Respond(r, BadRequest)
        ELSE IF balance.exc # "none" THEN Respond(r, BadRequest)
        ELSE LedgerCall(r, "create_account", r.auth.user,
                        create_account(r.db, bleach_clean(req.owner_name.s), balance.value,
                                       r.auth.user, new_id), TRUE)

do_deposit(db, s, file, req, time) ==
    LET r == Authenticated(db, s, file, req.headers, time)
        amount == py_float(req.amount)
    IN  IF r.auth.outcome # "ok" THEN r
        ELSE IF req.q # "params" THEN Respond(r, BadRequest)
        ELSE IF req.account_num.k # "dec" THEN Respond(r, BadRequest)
        ELSE IF req.amount.k = "absent" THEN Respond(r, BadRequest)
        ELSE IF amount.exc # "none" THEN Respond(r, BadRequest)
        ELSE LedgerCall(r, "deposit", r.auth.user,
                        deposit(r.db, PyInt(req.account_num.v), amount.value, <<>>,
                                r.auth.user, FALSE), TRUE)

do_withdraw(db, s, file, req, time) ==
    LET r == Authenticated(db, s, file, req.headers, time)
        amount == py_float(req.amount)
    IN  IF r.auth.outcome # "ok" THEN r
        ELSE IF req.q # "params" THEN Respond(r, BadRequest)
        ELSE IF req.account_num.k # "dec" THEN Respond(r, BadRequest)
        ELSE IF req.amount.k = "absent" THEN Respond(r, BadRequest)
        ELSE IF amount.exc # "none" THEN Respond(r, BadRequest)
        ELSE LedgerCall(r, "withdraw", r.auth.user,
                        withdraw(r.db, PyInt(req.account_num.v), amount.value, <<>>,
                                 r.auth.user, FALSE), TRUE)

\* The files under html/ that the server ships, by resource; "/" is menu.html.
html_file_pattern(resource) == resource \in {"/", "/menu.html", "/missing.html"}
is_file(resource) == resource \in {"/", "/menu.html"}

do_get_file_resource(r, resource) ==
    IF html_file_pattern(resource) /\ is_file(resource) THEN Respond(r, OK)
    ELSE Respond(r, NotFound)

do_login(db, s, file, req, time, session_id) ==
    LET r == Handling(db, s, file)
    IN  IF req.q # "params" THEN Respond(r, BadRequest)
        ELSE IF ~req.username.present THEN Respond(r, BadRequest)
        ELSE IF ~req.password.present THEN Respond(r, BadRequest)
        ELSE LET l == login(Users, bleach_clean(req.username.s), bleach_clean(req.password.s))
             IN  IF l.outcome = "ValueError" THEN Respond(r, Forbidden)
                 ELSE LET c == create_session(s, file, l.user, req.headers, session_id, time)
                      IN  do_get_file_resource(
                              [r EXCEPT !.sessions = c.sessions, !.file = c.file,
                                        !.cookie = c.cookie, !.created = TRUE],
                              "/menu.html")

\* GET /logout: the response of do_logout
logout_response(db, s, file, req) ==
    LET d == do_logout(s, file, req.headers)
    IN  [Handling(db, d.sessions, d.file) EXCEPT !.cookie = d.cookie, !.status = OK]

\* handle_get's table without the default (a mutant: unknown paths go to
\* /accountdetails)
get_route_NoDefault(resource) ==
    IF resource = "/logout" THEN "do_logout" ELSE "do_get_account_info"

\* handle_get: resource.startswith("/accountdetails"), "/logout", else a file
get_route(resource) ==
    IF resource \in {"/accountdetails", "/accountdetailsx"} THEN "do_get_account_info"
    ELSE IF resource = "/logout" THEN "do_logout"
    ELSE "do_get_file_resource"

\* handle_post
post_route(resource) ==
    IF resource = "/createaccount" THEN "do_create_account"
    ELSE IF resource = "/deposit" THEN "do_deposit"
    ELSE IF resource = "/withdraw" THEN "do_withdraw"
    ELSE IF resource = "/login" THEN "do_login"
    ELSE "NotFound"

handle_get(db, s, file, req, time) ==
    LET route == get_route(req.resource)
    IN  IF route = "do_get_account_info" THEN do_get_account_info(db, s, file, req, time)
        ELSE IF route = "do_logout" THEN logout_response(db, s, file, req)
        ELSE do_get_file_resource(Handling(db, s, file), req.resource)

handle_post(db, s, file, req, time, new_id, session_id) ==
    LET route == post_route(req.resource)
    IN  IF route = "do_create_account" THEN do_create_account(db, s, file, req, time, new_id)
        ELSE IF route = "do_deposit" THEN do_deposit(db, s, file, req, time)
        ELSE IF route = "do_withdraw" THEN do_withdraw(db, s, file, req, time)
        ELSE IF route = "do_login" THEN do_login(db, s, file, req, time, session_id)
        ELSE Respond(Handling(db, s, file), NotFound)

\* if clients_and_rates[client_connection] >= 10
RATE_LIMIT == 10

\* The body of main's loop for the connection that makes `n` connections so
\* far: the rate check, recv and decode, parse_request, the dispatch.
serve(db, s, file, n, req, time, new_id, session_id) ==
    IF n >= RATE_LIMIT THEN Uncaught(Handling(db, s, file), "Exception")
    ELSE IF req.raw = "undecodable" THEN Uncaught(Handling(db, s, file), "UnicodeDecodeError")
    ELSE IF req.raw = "malformed" THEN Respond(Handling(db, s, file), BadRequest)
    ELSE IF req.method = "GET" THEN handle_get(db, s, file, req, time)
    ELSE IF req.method = "POST" THEN handle_post(db, s, file, req, time, new_id, session_id)
    ELSE Respond(Handling(db, s, file), NotImplementedStatus)

(***************************************************************************)
(* The requests the clients send.                                          *)
(***************************************************************************)
\* The number of times the model lets an hour pass between connections.
MaxHours == 1

ServerHeaders == {NoCookieHeader} \cup {CookieHeader(t) : t \in Tokens}

\* For the requests whose parameters are at fault: no cookie, or the first
\* session's.
TwoHeaders == {NoCookieHeader, CookieHeader(1)}

Admin == Str(<<"a", "d", "m", "i", "n">>)

AccountDetailsRequests ==
    {Request("GET", "/accountdetails", h, "params", Dec(n), Absent, NoStr, NoStr, NoStr) :
        h \in ServerHeaders, n \in AcctNums}
    \cup {Request("GET", "/accountdetails", h, q[1], q[2], Absent, NoStr, NoStr, NoStr) :
        h \in TwoHeaders, q \in {<<"empty", Absent>>, <<"params", Text>>}}

DepositRequests ==
    {Request("POST", "/deposit", h, "params", Dec(n), Dec(1), NoStr, NoStr, NoStr) :
        h \in ServerHeaders, n \in AcctNums}
    \cup {Request("POST", "/deposit", h, "params", Dec(MinAcctNum), x, NoStr, NoStr, NoStr) :
        h \in TwoHeaders, x \in {Absent, Text, NaN}}

WithdrawRequests ==
    {Request("POST", "/withdraw", h, "params", Dec(n), Dec(1), NoStr, NoStr, NoStr) :
        h \in ServerHeaders, n \in AcctNums}
    \cup {Request("POST", "/withdraw", h, "params", a[1], a[2], NoStr, NoStr, NoStr) :
        h \in TwoHeaders, a \in {<<Text, Dec(1)>>, <<Dec(MinAcctNum), Fin(0 - 1)>>}}

CreateAccountRequests ==
    {Request("POST", "/createaccount", h, "params", Absent, Dec(1),
             Str(<<"J", "a", "n", "e">>), NoStr, NoStr) : h \in ServerHeaders}
    \cup {Request("POST", "/createaccount", h, "params", Absent, c[1], c[2], NoStr, NoStr) :
        h \in TwoHeaders,
        c \in {<<Dec(1), Str(<<"J", "<">>)>>, <<Dec(1), NoStr>>,
               <<Text, Str(<<"J", "a", "n", "e">>)>>}}

LoginRequests ==
    {Request("POST", "/login", h, "params", Absent, Absent, NoStr, c[1], c[2]) :
        h \in ServerHeaders, c \in {<<Admin, Admin>>, <<Str(<<"c">>), Str(<<"p">>)>>}}
    \cup {Request("POST", "/login", h, "params", Absent, Absent, NoStr, c[1], c[2]) :
        h \in TwoHeaders, c \in {<<Str(<<"c">>), Admin>>, <<NoStr, Admin>>}}

OtherRequests ==
    {Request("GET", "/logout", h, "empty", Absent, Absent, NoStr, NoStr, NoStr) :
        h \in ServerHeaders}
    \cup {Request(m[1], m[2], NoCookieHeader, "params", Dec(MinAcctNum), Dec(1), NoStr, Admin,
                  Admin) :
        m \in {<<"GET", "/">>, <<"GET", "/menu.html">>, <<"GET", "/missing.html">>,
               <<"GET", "/server.py">>, <<"GET", "/deposit">>, <<"POST", "/">>,
               <<"POST", "/logout">>, <<"PUT", "/deposit">>}}
    \cup {[NoRequest EXCEPT !.raw = x] : x \in {"undecodable", "malformed"}}

Requests ==
    AccountDetailsRequests \cup DepositRequests \cup WithdrawRequests
    \cup CreateAccountRequests \cup LoginRequests \cup OtherRequests

(***************************************************************************)
(* main's loop.  `conn` is the connection accepted last, `count` the       *)
(* number of connections main has counted.                                 *)
(***************************************************************************)
NoConn ==
    [pc |-> "listening", req |-> NoRequest, status |-> 0, exc |-> "none",
     cookie |-> NoCookie, auth |-> NoAuth, ledger |-> NoLedger, created |-> FALSE,
     time |-> 0, pre_db |-> <<>>, pre_sessions |-> <<>>, pre_file |-> NoFile]

\* main is one thread: it is at sock.accept() when it has just begun to
\* listen or has closed the connection before.
AtAccept_Always(c) == TRUE

AtAccept(c) == c.pc \in {"listening", "closed"}

\* sock.accept()
AcceptConn ==
    /\ AtAccept(conn)
    /\ conn' = [NoConn EXCEPT !.pc = "accepted"]
    /\ UNCHANGED <<ledger_vars, session_vars, count, parse>>

Accept == AcceptConn /\ UNCHANGED process_vars

\* The try block, sendall and close; an exception that is not an
\* HttpErrorResponse leaves the loop and ends the server.
ServeConn(requests) ==
    /\ conn.pc = "accepted"
    /\ \E req \in requests, new_id \in {n \in AcctNums : ~search_by_id(accounts, n).found} :
        LET ids == NewTokens(DOMAIN issued)
            session_id == IF ids = {} THEN 0 ELSE CHOOSE t \in ids : TRUE
            r == serve(accounts, sessions, session_file, count + 1, req, now, new_id,
                       session_id)
        IN  /\ (r.created => ids # {})
            /\ accounts' = r.db
            /\ sessions' = r.sessions
            /\ session_file' = r.file
            /\ issued' = Issue(IF r.created
                                THEN Put(issued, session_id,
                                         [user |-> r.sessions[session_id].user,
                                          time |-> now])
                                ELSE issued,
                                r.sessions, r.file)
            /\ count' = count + 1
            /\ conn' = [pc |-> IF r.exc = "none" THEN "closed" ELSE "crashed",
                        req |-> req, status |-> r.status, exc |-> r.exc,
                        cookie |-> r.cookie, auth |-> r.auth, ledger |-> r.ledger,
                        created |-> r.created, time |-> now, pre_db |-> accounts,
                        pre_sessions |-> sessions, pre_file |-> session_file]
            /\ UNCHANGED <<last, rt, now, ticks, purged, destroyed, slast, parse>>

Serve == ServeConn(Requests) /\ UNCHANGED process_vars

\* More than an hour passes between two connections, while a session is live
\* (with none, the server does not read the clock's value).
HourPasses ==
    /\ conn.pc = "closed"
    /\ ticks < MaxHours
    /\ \E t \in DOMAIN sessions : now <= sessions[t].expiration
    /\ now' = now + SessionLifetime + 1
    /\ ticks' = ticks + 1
    /\ UNCHANGED <<ledger_vars, sessions, session_file, issued, purged, destroyed, slast,
                   server_vars, process_vars>>

(***************************************************************************)
(* Request parsing (http_utils.py).  A string is the sequence of its       *)
(* characters, so that splitting, matching and stripping are computed.     *)
(* The requests parse_request is given here break lines with "\n" and hold *)
(* no '%'; on such strings unquote changes nothing and unquote_plus turns  *)
(* each '+' into a space.                                                  *)
(***************************************************************************)
\* The first position of character c in s, 0 when s does not hold it.
IndexOf(s, c) ==
    IF \E i \in 1..Len(s) : s[i] = c
    THEN CHOOSE i \in 1..Len(s) : s[i] = c /\ \A j \in 1..(i - 1) : s[j] # c
    ELSE 0

\* str.splitlines(): the lines without their line breaks; a line break at
\* the very end opens no further line.
RECURSIVE splitlines(_)
splitlines(s) ==
    IF s = <<>> THEN <<>>
    ELSE LET i == IndexOf(s, "\n")
         IN  IF i = 0 THEN <<s>>
             ELSE <<SubSeq(s, 1, i - 1)>> \o splitlines(SubSeq(s, i + 1, Len(s)))

\* str.split(sep) for a one-character separator: every separator cuts, so
\* the empty string gives one empty part.
RECURSIVE split(_, _)
split(s, sep) ==
    LET i == IndexOf(s, sep)
    IN  IF i = 0 THEN <<s>>
        ELSE <<SubSeq(s, 1, i - 1)>> \o split(SubSeq(s, i + 1, Len(s)), sep)

\* '\n'.join(lines)
RECURSIVE join(_)
join(lines) ==
    IF lines = <<>> THEN <<>>
    ELSE IF Len(lines) = 1 THEN lines[1]
    ELSE lines[1] \o <<"\n">> \o join(Tail(lines))

\* The characters \s matches under re.ASCII (\S is every other one).
Whitespace == {" ", "\t", "\n", "\r", "\f"}

\* str.strip()
RECURSIVE strip(_)
strip(s) ==
    IF s = <<>> THEN s
    ELSE IF s[1] \in Whitespace THEN strip(Tail(s))
    ELSE IF s[Len(s)] \in Whitespace THEN strip(SubSeq(s, 1, Len(s) - 1))
    ELSE s

\* urllib.parse.unquote_plus
unquote_plus(s) == [i \in 1..Len(s) |-> IF s[i] = "+" THEN " " ELSE s[i]]

\* urllib.parse.unquote
unquote(s) == s

\* str.partition(':')
partition(s) ==
    LET i == IndexOf(s, ":")
    IN  IF i = 0 THEN [head |-> s, sep |-> <<>>, tail |-> <<>>]
        ELSE [head |-> SubSeq(s, 1, i - 1), sep |-> <<":">>,
              tail |-> SubSeq(s, i + 1, Len(s))]

Methods ==
    { <<"O", "P", "T", "I", "O", "N", "S">>,    \* 'OPTIONS'
      <<"G", "E", "T">>,    \* 'GET'
      <<"H", "E", "A", "D">>,    \* 'HEAD'
      <<"P", "O", "S", "T">>,    \* 'POST'
      <<"P", "U", "T">>,    \* 'PUT'
      <<"D", "E", "L", "E", "T", "E">>,    \* 'DELETE'
      <<"T", "R", "A", "C", "E">>,    \* 'TRACE'
      <<"C", "O", "N", "N", "E", "C", "T">> }    \* 'CONNECT'

\* The version alternatives 1.0|1.1|2.0 of the pattern: its dots are not
\* escaped, and an unescaped dot matches any character but a line break.
VersionPattern(v) ==
    /\ Len(v) = 3
    /\ v[2] # "\n"
    /\ <<v[1], v[3]>> \in {<<"1", "0">>, <<"1", "1">>, <<"2", "0">>}

\* re.match(VALID_REQUEST_LINE_PATTERN, line): a method, one space, one or
\* more non-whitespace characters, " HTTP/" and the version, to the end.
VALID_REQUEST_LINE_PATTERN(line) ==
    \E m \in Methods : \E j \in 1..Len(line) :
        /\ Len(m) + 2 <= j
        /\ Len(line) = j + 9
        /\ SubSeq(line, 1, Len(m)) = m
        /\ line[Len(m) + 1] = " "
        /\ \A i \in (Len(m) + 2)..j : line[i] \notin Whitespace
        /\ SubSeq(line, j + 1, j + 6) = <<" ", "H", "T", "T", "P", "/">>
        /\ VersionPattern(SubSeq(line, j + 7, j + 9))

\* parse_request returns (method, resource, protocol, headers, body) or
\* raises.
ParseResult(exc, method, resource, protocol, headers, body) ==
    [exc |-> exc, method |-> method, resource |-> resource, protocol |-> protocol,
     headers |-> headers, body |-> body]

ParseRaises(exc) == ParseResult(exc, <<>>, <<>>, <<>>, <<>>, <<>>)

\* The header loop of parse_request: each line is cut at its first ':',
\* a line with no ':' or with nothing after it raises, and a later field
\* of the same name replaces the earlier one.
RECURSIVE parse_headers(_, _)
parse_headers(header_lst, headers) ==
    IF header_lst = <<>> THEN [exc |-> "none", headers |-> headers]
    ELSE LET p == partition(header_lst[1])
         IN  IF p.sep = <<>> THEN [exc |-> "BadRequest", headers |-> headers]
             ELSE IF p.tail = <<>> THEN [exc |-> "BadRequest", headers |-> headers]
             ELSE parse_headers(Tail(header_lst),
                                Put(headers, unquote(strip(p.head)),
                                    unquote(strip(p.tail))))

parse_request(request) ==
    LET lines == splitlines(request)
    IN  IF lines = <<>> THEN ParseRaises("BadRequest")
        ELSE IF ~VALID_REQUEST_LINE_PATTERN(lines[1]) THEN ParseRaises("BadRequest")
        ELSE LET parts == split(lines[1], " ")
                 crlf == IndexOf(lines, <<>>)
             IN  IF Len(parts) # 3 THEN ParseRaises("ValueError")
                 ELSE IF crlf = 0 THEN ParseRaises("BadRequest")
                 ELSE LET h == parse_headers(SubSeq(lines, 2, crlf - 1), <<>>)
                      IN  IF h.exc # "none" THEN ParseRaises(h.exc)
                          ELSE ParseResult("none", parts[1], unquote_plus(parts[2]),
                                           parts[3], h.headers,
                                           unquote_plus(join(SubSeq(lines, crlf + 1,
                                                                    Len(lines)))))

\* Requests of at most MaxHeaders header lines.
MaxHeaders == 2

RequestLines ==
    { <<"G", "E", "T", " ", "/", " ", "H", "T", "T", "P", "/", "1", ".", "1">>,    \* 'GET / HTTP/1.1'
      <<"P", "O", "S", "T", " ", "/", "a", "+", "b", " ", "H", "T", "T", "P", "/", "2", ".", "0">>,    \* 'POST /a+b HTTP/2.0'
      <<"P", "U", "T", " ", "/", " ", "H", "T", "T", "P", "/", "1", ".", "0">>,    \* 'PUT / HTTP/1.0'
      <<"B", "R", "E", "W", " ", "/", " ", "H", "T", "T", "P", "/", "1", ".", "1">>,    \* 'BREW / HTTP/1.1'
      <<"G", "E", "T", " ", "/", " ", "H", "T", "T", "P", "/", "1", ".", "2">>,    \* 'GET / HTTP/1.2'
      <<"G", "E", "T", " ", "/", " ", "H", "T", "T", "P", "/", "1", "x", "0">>,    \* 'GET / HTTP/1x0'
      <<"G", "E", "T", " ", " ", "/", " ", "H", "T", "T", "P", "/", "1", ".", "1">>,    \* 'GET  / HTTP/1.1'
      <<"G", "E", "T", " ", "/", " ", "H", "T", "T", "P", "/", "1", ".", "1", " ">>,    \* 'GET / HTTP/1.1 '
      <<"g", "e", "t", " ", "/", " ", "H", "T", "T", "P", "/", "1", ".", "1">>,    \* 'get / HTTP/1.1'
      <<>>,    \* ''
      <<"G", "E", "T", " ", "/", "a", " ", "b", " ", "H", "T", "T", "P", "/", "1", ".", "1">> }    \* 'GET /a b HTTP/1.1'

HeaderLines ==
    { <<"H", ":", "v">>,    \* 'H:v'
      <<"H", ":", " ", "w", " ">>,    \* 'H: w '
      <<"H", ":">>,    \* 'H:'
      <<"H">>,    \* 'H'
      <<"H", ":", " ">>,    \* 'H: '
      <<"A", ":", "b", ":", "c">> }    \* 'A:b:c'

HeaderBlocks == UNION {[1..n -> HeaderLines] : n \in 0..MaxHeaders}

\* What follows the header lines: nothing, a line break, a blank line, a
\* blank line and a body.
Endings ==
    { <<>>,
      <<<<>>>>,
      <<<<>>, <<>>>>,
      <<<<>>, <<"a", "+", "b">>>>,
      <<<<>>, <<"x">>, <<>>, <<"H">>>> }

ParseRequests ==
    {<<>>, <<"\n">>} \cup
    {join(<<l>> \o hs \o e) : l \in RequestLines, hs \in HeaderBlocks, e \in Endings}

\* parse_request has not been called.
NoParse == [phase |-> "idle", request |-> <<>>, result |-> ParseRaises("none")]

\* The server has read a request off the connection.
Receive ==
    /\ parse.phase = "idle"
    /\ \E request \in ParseRequests :
           parse' = [phase |-> "received", request |-> request,
                     result |-> ParseRaises("none")]
    /\ UNCHANGED <<ledger_vars, session_vars, conn, count, process_vars>>

ParseRequest ==
    /\ parse.phase = "received"
    /\ parse' = [parse EXCEPT !.phase = "parsed",
                              !.result = parse_request(parse.request)]
    /\ UNCHANGED <<ledger_vars, session_vars, conn, count, process_vars>>

\* The connection is closed and the next one is awaited.
NextRequest ==
    /\ parse.phase = "parsed"
    /\ parse' = NoParse
    /\ UNCHANGED <<ledger_vars, session_vars, conn, count, process_vars>>

(***************************************************************************)
(* console.py.  `console` is one run of the console program: the users     *)
(* table it logs in against, its place in main (pc), the credentials of    *)
(* the last login attempt, the User that main holds, and a summary of the  *)
(* ledger call before the last one.  The ledger calls are recorded in      *)
(* `last`, as in the other callers.                                        *)
(***************************************************************************)
UserRow(username, user, password) ==
    [username |-> username, user |-> user, password |-> Hashed(password, "salt")]

\* The users tables the console is run against: none, the customer, and a
\* stored customer whose username is the bypass username.
UserTables ==
    SUBSET {UserRow(<<"c">>, Customer(MinAcctNum), <<"p">>),
            UserRow(get_SUPPORT_UN, Customer(QuirkAcctNum), get_SUPPORT_PW)}

NoPrev ==
    [op |-> "none", outcome |-> "none", account_num |-> PyInt(0), amount |-> Fin(0),
     notes |-> <<>>, before |-> Null]

\* What is remembered of the call recorded in `last` when the next call is
\* made: a deposit that succeeded, with the balance it found.
PrevOf(l) ==
    IF l.op = "deposit" /\ l.outcome = "ok"
    THEN [op |-> l.op, outcome |-> l.outcome, account_num |-> l.account_num,
          amount |-> l.amount, notes |-> l.notes,
          before |-> l.pre[l.account_num.v].balance]
    ELSE NoPrev

\* console.py is not running.
NoConsole ==
    [pc |-> "off", users |-> {}, username |-> <<>>, password |-> <<>>,
     login_outcome |-> "none", user |-> NotAUser, prev |-> NoPrev]

ConsoleCredentials ==
    {<<get_SUPPORT_UN, get_SUPPORT_PW>>, <<<<"c">>, <<"p">>>>, <<<<"c">>, <<"x">>>>,
     <<get_SUPPORT_UN, <<"x">>>>, <<<<>>, <<>>>>}

\* The amount typed at the console.
ConsoleAmount == Fin(1)

\* The except clauses of do_create and do_deposit, do_withdraw: the call
\* returns to the menu, or the exception ends the program.
ConsoleCatches(outcome) ==
    outcome \in {"ok", "TypeError", "ValueError", "PermissionError", "RuntimeError"}

\* do_get_account has no clause for RuntimeError.
ConsoleCatchesGet(outcome) ==
    outcome \in {"ok", "TypeError", "ValueError", "PermissionError"}

\* main's login loop: an empty username exits, a ValueError of bank.login
\* asks again.
ConsoleLogin ==
    /\ console.pc = "login"
    /\ \E c \in ConsoleCredentials :
        LET l == login(console.users, c[1], c[2])
        IN  console' = [console EXCEPT
                !.username = c[1], !.password = c[2],
                !.login_outcome = IF c[1] = <<>> THEN "none" ELSE l.outcome,
                !.user = IF c[1] # <<>> /\ l.outcome = "ok" THEN l.user ELSE NotAUser,
                !.pc = IF c[1] = <<>> THEN "exited"
                       ELSE IF l.outcome = "ok" THEN "menu" ELSE "login"]
    /\ UNCHANGED <<ledger_vars, session_vars, server_vars, procs, socks, alloc>>

\* A menu entry has called the ledger and the call ended as r.
ConsoleCalled(op, account_num, amount, notes, owner_name, r, caught) ==
    /\ Called(op, account_num, amount, notes, owner_name, console.user, FALSE, r)
    /\ console' = [console EXCEPT !.prev = PrevOf(last),
                                  !.pc = IF caught THEN "menu" ELSE "crashed"]
    /\ UNCHANGED <<rt, session_vars, server_vars, procs, socks, alloc>>

\* do_create
ConsoleCreate ==
    /\ console.pc = "menu"
    /\ \E new_id \in {n \in AcctNums : ~search_by_id(accounts, n).found} :
        LET r == create_account(accounts, <<"J", "a", "n", "e">>, Fin(2), console.user,
                                new_id)
        IN  ConsoleCalled("create_account", PyInt(0), Fin(2), <<>>,
                          <<"J", "a", "n", "e">>, r, ConsoleCatches(r.outcome))

\* do_deposit
ConsoleDeposit ==
    /\ console.pc = "menu"
    /\ \E n \in AcctNums, notes \in NoteInputs :
        LET r == deposit(accounts, PyInt(n), ConsoleAmount, notes, console.user, FALSE)
        IN  /\ NotesFit(PyInt(n), notes)
            /\ ConsoleCalled("deposit", PyInt(n), ConsoleAmount, notes, <<>>, r,
                             ConsoleCatches(r.outcome))

\* do_withdraw
ConsoleWithdraw ==
    /\ console.pc = "menu"
    /\ \E n \in AcctNums :
        LET r == withdraw(accounts, PyInt(n), ConsoleAmount, <<>>, console.user, FALSE)
        IN  ConsoleCalled("withdraw", PyInt(n), ConsoleAmount, <<>>, <<>>, r,
                             ConsoleCatches(r.outcome))

\* do_get_account
ConsoleGetAccount ==
    /\ console.pc = "menu"
    /\ \E n \in AcctNums :
        LET r == get_account(accounts, PyInt(n), console.user)
        IN  ConsoleCalled("get_account", PyInt(n), Fin(0), <<>>, <<>>, r,
                          ConsoleCatchesGet(r.outcome))

\* An empty choice at the menu ends the program.
ConsoleExit ==
    /\ console.pc = "menu"
    /\ console' = [console EXCEPT !.pc = "exited"]
    /\ UNCHANGED <<ledger_vars, session_vars, server_vars, procs, socks, alloc>>

\* console.py is run again, against the same database.
ConsoleStart ==
    /\ console.pc \in {"exited", "crashed"}
    /\ console' = [NoConsole EXCEPT !.pc = "login", !.users = console.users]
    /\ last' = [NoCall EXCEPT !.pre = accounts]
    /\ UNCHANGED <<accounts, rt, session_vars, server_vars, procs, socks, alloc>>

(***************************************************************************)
(* Two processes on one database file.  server.py and console.py each      *)
(* import bank.py and open the sqlite file per statement, so the SELECT of *)
(* search_by_id and the UPDATE of update_account of one deposit or         *)
(* withdraw are separate transactions, and those of the other process may  *)
(* fall between them.  `procs` holds, per process, the call it is in: its  *)
(* place (idle, read: between the SELECT and the UPDATE, done), the        *)
(* Account object it holds, and the outcome; `base` is the table when the  *)
(* two calls began and `overlap` whether one read while the other was      *)
(* between its read and its write.                                         *)
(***************************************************************************)
Procs == {"server", "console"}

NoProc ==
    [pc |-> "idle", op |-> "none", account_num |-> 0, amount |-> Fin(0),
     acct |-> NoRecord, outcome |-> "none"]

NoProcs == [base |-> <<>>, overlap |-> FALSE, of |-> [p \in Procs |-> NoProc]]

\* deposit or withdraw as bank.py runs it on the table db.
LedgerOp(op, db, n, amount) ==
    IF op = "deposit" THEN deposit(db, PyInt(n), amount, <<>>, Banker, FALSE)
    ELSE withdraw(db, PyInt(n), amount, <<>>, Banker, FALSE)

\* The call up to and including acct.balance += amount (or -= amount): the
\* checks, search_by_id and the new balance, held in the process's Account.
\* A call that fails a check ends here.
ProcRead(p) ==
    /\ procs.of[p].pc = "idle"
    /\ \E op \in {"deposit", "withdraw"}, n \in DOMAIN accounts :
        LET r == LedgerOp(op, accounts, n, Fin(1))
            acct == Account(n, accounts[n].owner, r.io.expected, accounts[n].notes)
            others == Procs \ {p}
        IN  procs' = [procs EXCEPT
                !.base = IF \A q \in Procs : procs.of[q].pc = "idle" THEN accounts ELSE @,
                !.overlap = IF \A q \in Procs : procs.of[q].pc = "idle" THEN FALSE
                            ELSE (@ \/ \E q \in others : procs.of[q].pc = "read"),
                !.of[p] = [pc |-> IF r.io.wrote THEN "read" ELSE "done",
                           op |-> op, account_num |-> n, amount |-> Fin(1),
                           acct |-> IF r.io.wrote THEN acct ELSE NoRecord,
                           outcome |-> IF r.io.wrote THEN "none" ELSE r.outcome]]
    /\ UNCHANGED <<ledger_vars, session_vars, server_vars, console, socks, alloc>>

\* db.update_account(copy) and the comparison of result.balance with
\* acct.balance.
ProcWrite(p) ==
    /\ procs.of[p].pc = "read"
    /\ LET w == WriteBack(accounts, procs.of[p].acct, FALSE)
       IN  /\ accounts' = w.db
           /\ procs' = [procs EXCEPT !.of[p].pc = "done", !.of[p].outcome = w.outcome]
    /\ UNCHANGED <<last, rt, session_vars, server_vars, console, socks, alloc>>

\* Both calls have returned; the processes make their next calls.
ProcsAgain ==
    /\ \A p \in Procs : procs.of[p].pc = "done"
    /\ procs' = NoProcs
    /\ UNCHANGED <<ledger_vars, session_vars, server_vars, console, socks, alloc>>

(***************************************************************************)
(* The clients' connections to the listening socket.  `socks` gives each   *)
(* client's connection: idle (none), queued (connected, waiting in the     *)
(* listen backlog), accepted (returned by sock.accept() and not closed),   *)
(* closed (client_connection.close() was called).                          *)
(***************************************************************************)
MaxClients == 2

Clients == 1..MaxClients

NoSocks == [c \in Clients |-> "idle"]

\* What the clients of this part send: a login, deposits and reads with the
\* first session's cookie or none, a logout.
SockRequests ==
    {r \in LoginRequests : r.headers = NoCookieHeader /\ r.username = Admin /\ r.password = Admin}
    \cup {r \in DepositRequests \cup AccountDetailsRequests \cup OtherRequests :
            /\ r.headers \in TwoHeaders
            /\ r.raw = "ok"
            /\ r.q = "params" => (r.account_num = Dec(MinAcctNum) /\ r.amount \in {Absent, Dec(1)})
            /\ r.resource \in {"/deposit", "/accountdetails", "/logout"}}

\* A client connects; the operating system completes the connection whatever
\* main is doing.
SockConnect(c) ==
    /\ socks[c] = "idle"
    /\ conn.pc # "crashed"
    /\ socks' = [socks EXCEPT ![c] = "queued"]
    /\ UNCHANGED <<ledger_vars, session_vars, server_vars, console, procs, alloc>>

\* sock.accept() returns a waiting connection.
SockAccept(c) ==
    /\ socks[c] = "queued"
    /\ AcceptConn
    /\ socks' = [socks EXCEPT ![c] = "accepted"]
    /\ UNCHANGED <<console, procs, alloc>>

\* The loop's body for the accepted connection, to client_connection.close();
\* an uncaught exception ends main before the close.
SockServe(c) ==
    /\ socks[c] = "accepted"
    /\ ServeConn(SockRequests)
    /\ socks' = [socks EXCEPT ![c] = IF conn'.pc = "closed" THEN "closed" ELSE @]
    /\ UNCHANGED <<console, procs, alloc>>

\* The client is done with its closed connection and may connect again.
SockAgain(c) ==
    /\ socks[c] = "closed"
    /\ socks' = [socks EXCEPT ![c] = "idle"]
    /\ UNCHANGED <<ledger_vars, session_vars, server_vars, console, procs, alloc>>

(***************************************************************************)
(* The number allocation of create_account, draw by draw.  `alloc` is a    *)
(* banker's call of create_account with a valid name and balance: its      *)
(* place (idle, loop: in the while loop, returned, raised), the draws made *)
(* so far (counted up to MaxDraws), the last number drawn and the outcome. *)
(* The numbers random.randint can yield are scaled to AcctNums.            *)
(***************************************************************************)
MaxDraws == 2

NoAlloc == [pc |-> "idle", draws |-> 0, new_id |-> 0, outcome |-> "none"]

\* The call passes its checks of owner_name, balance and user and enters
\* the loop.
AllocStart ==
    /\ alloc.pc = "idle"
    /\ OWNER_NAME_PATTERN(<<"J", "a", "n", "e">>)
    /\ AmountInRange(Fin(1))
    /\ IsBanker(Banker)
    /\ alloc' = [NoAlloc EXCEPT !.pc = "loop"]
    /\ UNCHANGED <<ledger_vars, session_vars, server_vars, console, procs, socks>>

\* One pass of the loop with random.randint yielding new_id: a number that
\* search_by_id finds is drawn again; any other ends the loop, with the
\* Account that db.create_account returns or the exception raised.
Draw(new_id) ==
    /\ alloc.pc = "loop"
    /\ LET s == search_by_id(accounts, new_id)
           r == create_account(accounts, <<"J", "a", "n", "e">>, Fin(1), Banker, new_id)
       IN  IF s.exc = "none" /\ s.found
           THEN /\ alloc' = [alloc EXCEPT
                        !.draws = IF @ < MaxDraws THEN @ + 1 ELSE @,
                        !.new_id = new_id]
                /\ UNCHANGED accounts
           ELSE /\ alloc' = [alloc EXCEPT
                        !.pc = IF r.outcome = "ok" THEN "returned" ELSE "raised",
                        !.new_id = new_id,
                        !.outcome = r.outcome]
                /\ accounts' = r.db
    /\ UNCHANGED <<last, rt, session_vars, server_vars, console, procs, socks>>

\* The caller has the result and calls again.
AllocAgain ==
    /\ alloc.pc \in {"returned", "raised"}
    /\ alloc' = NoAlloc
    /\ UNCHANGED <<ledger_vars, session_vars, server_vars, console, procs, socks>>

(***************************************************************************)
(* Specifications.  Spec is the ledger under the calls of bank.py;         *)
(* SpecFault adds a concurrent writer that deletes rows; SpecSession is    *)
(* the session store.                                                      *)
(***************************************************************************)
InitSessions ==
    /\ sessions = <<>>
    /\ session_file = NoFile
    /\ now = 0
    /\ ticks = 0
    /\ issued = <<>>
    /\ purged = {}
    /\ destroyed = <<>>
    /\ slast = NoSessionCall
    /\ conn = NoConn
    /\ count = 0
    /\ parse = NoParse
    /\ console = NoConsole
    /\ procs = NoProcs
    /\ socks = NoSocks
    /\ alloc = NoAlloc

Init ==
    /\ accounts \in {[n \in {MinAcctNum, QuirkAcctNum} |->
                        Row(IF n = MinAcctNum THEN b1 ELSE b2)] :
                     b1 \in {Fin(0), Fin(3)}, b2 \in {Fin(0), Fin(2)}}
    /\ last = [NoCall EXCEPT !.pre = accounts]
    /\ rt = RtIdle
    /\ InitSessions

Next == CreateAccount \/ Deposit \/ Withdraw \/ GetAccount \/ Returned

Spec == Init /\ [][Next]_vars

NextFault == Next \/ DepositRowLost \/ WithdrawRowLost

SpecFault == Init /\ [][NextFault]_vars

\* The round trip starts from any table of non-negative balances.
InitRoundTrip ==
    /\ accounts \in {[n \in {MinAcctNum, QuirkAcctNum} |->
                        Row(IF n = MinAcctNum THEN b1 ELSE b2)] :
                     b1 \in {Fin(n) : n \in Representable} \cup {PosInf},
                     b2 \in {Fin(0), Fin(2)}}
    /\ last = [NoCall EXCEPT !.pre = accounts]
    /\ rt = RtIdle
    /\ InitSessions

NextRoundTrip == RoundTripWithdraw \/ RoundTripDeposit \/ RoundTripAgain

SpecRoundTrip == InitRoundTrip /\ [][NextRoundTrip]_vars

NextSession ==
    \/ CreateSession \/ DeleteSession \/ Logout \/ Authenticate
    \/ Tick \/ Restart \/ SessionReturned

\* The session store does not read the ledger: one table is enough.
InitSession ==
    /\ accounts = [n \in {MinAcctNum, QuirkAcctNum} |-> Row(Fin(0))]
    /\ last = [NoCall EXCEPT !.pre = accounts]
    /\ rt = RtIdle
    /\ InitSessions

SpecSession == InitSession /\ [][NextSession]_vars

\* The web server over one table and an empty session store.
InitServer ==
    /\ accounts = [n \in {MinAcctNum, QuirkAcctNum} |->
                      Row(IF n = MinAcctNum THEN Fin(1) ELSE Fin(0))]
    /\ last = [NoCall EXCEPT !.pre = accounts]
    /\ rt = RtIdle
    /\ InitSessions

NextServer == Accept \/ Serve \/ HourPasses

SpecServer == InitServer /\ [][NextServer]_vars

\* SpecConsole is console.py run against any of the users tables, over a
\* table with a NULL balance or without.
InitConsole ==
    /\ accounts \in {[n \in {MinAcctNum, QuirkAcctNum} |->
                        Row(IF n = MinAcctNum THEN b1 ELSE Fin(0))] :
                     b1 \in {Fin(2), Null}}
    /\ last = [NoCall EXCEPT !.pre = accounts]
    /\ rt = RtIdle
    /\ sessions = <<>>
    /\ session_file = NoFile
    /\ now = 0
    /\ ticks = 0
    /\ issued = <<>>
    /\ purged = {}
    /\ destroyed = <<>>
    /\ slast = NoSessionCall
    /\ conn = NoConn
    /\ count = 0
    /\ parse = NoParse
    /\ console \in {[NoConsole EXCEPT !.pc = "login", !.users = u] : u \in UserTables}
    /\ procs = NoProcs
    /\ socks = NoSocks
    /\ alloc = NoAlloc

NextConsole ==
    \/ ConsoleLogin \/ ConsoleCreate \/ ConsoleDeposit \/ ConsoleWithdraw
    \/ ConsoleGetAccount \/ ConsoleExit \/ ConsoleStart

SpecConsole == InitConsole /\ [][NextConsole]_vars

\* SpecProcs is the web server and the console at work on one database.
InitProcs ==
    /\ accounts = [n \in {MinAcctNum, QuirkAcctNum} |->
                      Row(IF n = MinAcctNum THEN Fin(1) ELSE Fin(0))]
    /\ last = [NoCall EXCEPT !.pre = accounts]
    /\ rt = RtIdle
    /\ InitSessions

NextProcs == (\E p \in Procs : ProcRead(p) \/ ProcWrite(p)) \/ ProcsAgain

SpecProcs == InitProcs /\ [][NextProcs]_vars

\* SpecAlloc is create_account's loop over every table of the scaled number
\* space, each row with a balance of 0 or of NULL; SpecAllocFair adds that
\* a number random.randint can yield is not passed over for ever, and that
\* the caller goes on calling.
InitAlloc ==
    /\ accounts \in UNION {[S -> {Row(Fin(0)), Row(Null)}] : S \in SUBSET AcctNums}
    /\ last = [NoCall EXCEPT !.pre = accounts]
    /\ rt = RtIdle
    /\ InitSessions

NextAlloc == AllocStart \/ (\E new_id \in AcctNums : Draw(new_id)) \/ AllocAgain

SpecAlloc == InitAlloc /\ [][NextAlloc]_vars

SpecAllocFair ==
    /\ InitAlloc
    /\ [][NextAlloc]_vars
    /\ \A new_id \in AcctNums : WF_vars(Draw(new_id))
    /\ WF_vars(AllocStart)
    /\ WF_vars(AllocAgain)

\* SpecSocks is the web server with its clients' connections.
NextSocks ==
    \E c \in Clients : SockConnect(c) \/ SockAccept(c) \/ SockServe(c) \/ SockAgain(c)

SpecSocks == InitServer /\ [][NextSocks]_vars

\* SpecParse is parse_request applied to the requests of ParseRequests.
NextParse == Receive \/ ParseRequest \/ NextRequest

SpecParse == InitServer /\ [][NextParse]_vars

(***************************************************************************)
(* The claims' own terms.                                                  *)
(***************************************************************************)
\* The authorization rule as the specification states it.
Authorized(user, n) ==
    user.role = "BANKER" \/ (user.role = "CUSTOMER" /\ user.account_num = n)

\* A valid amount or balance: a float, non-negative, at most the largest
\* finite float.
ValidAmount(a) == a.k = "fin" /\ a.v >= 0 /\ a.v <= MaxFinite

\* A valid owner name: 1 to 64 Latin letters and spaces.
ValidOwnerName(s) ==
    /\ Len(s) >= 1
    /\ Len(s) <= MaxOwnerLen
    /\ \A i \in 1..Len(s) : s[i] \in Letters \cup {" "}

\* The last call was op, made with a User, an int account number that is in
\* the table it found, and (for deposit and withdraw) a valid amount.
OnExistingAccount(ops) ==
    /\ last.op \in ops
    /\ ~last.lost
    /\ last.user.is_user
    /\ IsInt(last.account_num)
    /\ last.account_num.v \in DOMAIN last.pre
    /\ (last.op = "get_account" \/ ValidAmount(last.amount))

C2_AuthorizationRule ==
    OnExistingAccount({"deposit", "withdraw", "get_account"}) =>
        /\ last.outcome = "ok" => Authorized(last.user, last.account_num.v)
        /\ ~Authorized(last.user, last.account_num.v) =>
               (last.outcome = "PermissionError" /\ accounts = last.pre)

\* C2's rule on the accounts search_by_id can read.
C2_RuleOnReadableAccounts ==
    (/\ OnExistingAccount({"deposit", "withdraw", "get_account"})
     /\ last.pre[last.account_num.v].balance.k # "null") =>
        /\ last.outcome = "ok" => Authorized(last.user, last.account_num.v)
        /\ ~Authorized(last.user, last.account_num.v) =>
               (last.outcome = "PermissionError" /\ accounts = last.pre)

(***************************************************************************)
(* C3.  For every valid owner_name and balance, create_account by a BANKER *)
(* returns and stores a new account with the given balance and a number in *)
(* 100000..999999 that was not in the table, and changes no other account. *)
(* Violated: Database.create_account raises NameError and inserts nothing. *)
(***************************************************************************)
C3_BankerCreatesAccount ==
    (/\ last.op = "create_account"
     /\ ValidOwnerName(last.owner_name)
     /\ ValidAmount(last.amount)
     /\ last.user.is_user
     /\ last.user.role = "BANKER") =>
        /\ last.outcome = "ok"
        /\ last.ret.balance = last.amount
        /\ last.ret.account_num \in MinAcctNum..MaxAcctNum
        /\ last.ret.account_num \notin DOMAIN last.pre
        /\ DOMAIN accounts = DOMAIN last.pre \cup {last.ret.account_num}
        /\ accounts[last.ret.account_num].balance = last.amount
        /\ \A n \in DOMAIN last.pre : accounts[n] = last.pre[n]

(***************************************************************************)
(* C4.  For every valid owner_name and balance, create_account by a User   *)
(* whose role is not BANKER fails with PermissionError and adds no account *)
(* to the table.                                                           *)
(***************************************************************************)
C4_NonBankerCreateForbidden ==
    (/\ last.op = "create_account"
     /\ ValidOwnerName(last.owner_name)
     /\ ValidAmount(last.amount)
     /\ last.user.is_user
     /\ last.user.role # "BANKER") =>
        (last.outcome = "PermissionError" /\ accounts = last.pre)

C4_Witness ==
    /\ last.op = "create_account"
    /\ ValidOwnerName(last.owner_name)
    /\ ValidAmount(last.amount)
    /\ last.user.role = "CUSTOMER"
    /\ last.outcome = "PermissionError"

C6_RoundTripRestoresBalance ==
    (/\ rt.phase = "done"
     /\ rt.user.is_user
     /\ Authorized(rt.user, rt.account_num)
     /\ ValidAmount(rt.amount)
     /\ ~FLt(rt.before, rt.amount)) =>
        /\ rt.w_outcome = "ok"
        /\ rt.d_outcome = "ok"
        /\ accounts[rt.account_num].balance = rt.before

\* C6 apart from account 935370: what is left is the rounding.
C6_RoundTripElsewhere ==
    (/\ rt.phase = "done"
     /\ rt.account_num # QuirkAcctNum
     /\ rt.user.is_user
     /\ Authorized(rt.user, rt.account_num)
     /\ ValidAmount(rt.amount)
     /\ ~FLt(rt.before, rt.amount)) =>
        /\ rt.w_outcome = "ok"
        /\ rt.d_outcome = "ok"
        /\ accounts[rt.account_num].balance = rt.before

C7_IntegrityWhenUpdated ==
    (last.op \in {"deposit", "withdraw"} /\ last.io.wrote /\ last.io.some) =>
        /\ last.outcome = "ok" => ~FNe(last.io.reported, last.io.expected)
        /\ FNe(last.io.reported, last.io.expected) => last.outcome = "RuntimeError"

(***************************************************************************)
(* C8.  authenticate(headers) at time now returns a user if and only if    *)
(* the headers carry a session cookie whose token is in the session store  *)
(* and now <= that session's expiration; otherwise it fails with 401       *)
(* Unauthorized.  The user returned is the session's.                      *)
(***************************************************************************)
C8_AuthenticateIffLive ==
    slast.op = "authenticate" =>
        LET h == slast.headers
            live == /\ h.has_cookie
                    /\ h.sid \in DOMAIN slast.pre
                    /\ slast.time <= slast.pre[h.sid].expiration
        IN  /\ slast.outcome = "ok" <=> live
            /\ slast.outcome # "ok" => slast.outcome = "Unauthorized"
            /\ slast.outcome = "ok" => slast.user = slast.pre[h.sid].user

\* authenticate succeeds at the very instant of the expiration.
C8_Witness ==
    /\ slast.op = "authenticate"
    /\ slast.outcome = "ok"
    /\ slast.time = slast.pre[slast.headers.sid].expiration

(***************************************************************************)
(* C9.  When authenticate is called with a token whose session has         *)
(* expiration < now, the session is removed from the store, the 401        *)
(* carries the cookie that expires the client's session cookie, and every  *)
(* later authenticate with that token fails.                               *)
(***************************************************************************)
C9_ExpiredSessionPurged ==
    (slast.op = "authenticate" /\ slast.headers.has_cookie) =>
        LET sid == slast.headers.sid
        IN  /\ (sid \in DOMAIN slast.pre /\ slast.pre[sid].expiration < slast.time) =>
                   /\ sid \notin DOMAIN sessions
                   /\ slast.outcome = "Unauthorized"
                   /\ slast.cookie = DeletedCookie
            /\ sid \in slast.pre_purged => slast.outcome = "Unauthorized"

\* A purged token is presented again after a restart has loaded its session
\* back from the snapshot.
C9_Witness ==
    /\ slast.op = "authenticate"
    /\ slast.headers.sid \in slast.pre_purged
    /\ slast.headers.sid \in DOMAIN slast.pre
    /\ slast.outcome = "Unauthorized"
    /\ slast.cookie = DeletedCookie
    /\ slast.headers.sid \notin DOMAIN sessions

(***************************************************************************)
(* C10.  After every session-store operation that changes the mapping      *)
(* (create, delete, the purge of an expired session in authenticate), the  *)
(* snapshot on disk equals the mapping in memory, so a session manager     *)
(* started from the snapshot holds the same sessions.                      *)
(* Violated: the purge raises Unauthorized without _write_sessions().      *)
(***************************************************************************)
C10_SnapshotMatchesMemory ==
    (/\ slast.op \in {"create_session", "delete_session", "authenticate"}
     /\ sessions # slast.pre) =>
        /\ session_file.exists
        /\ session_file.data = sessions
        /\ HttpSessionManager(session_file) = sessions

\* C10 for create_session and delete_session.
C10_SnapshotAfterCreateDelete ==
    (slast.op \in {"create_session", "delete_session"} /\ slast.outcome = "ok") =>
        /\ session_file.exists
        /\ HttpSessionManager(session_file) = sessions

(***************************************************************************)
(* C11.  create_session(user, headers) at time now removes the session of  *)
(* a token the headers carry if it is in the store, maps a token that was  *)
(* not in the store to a session of `user` expiring at exactly now + 3600, *)
(* leaves every other session alone, and has written the mapping to the    *)
(* snapshot when it returns the cookie of that token.                      *)
(***************************************************************************)
C11_CreateSession ==
    slast.op = "create_session" =>
        LET h == slast.headers
            sid == slast.cookie.value
            carried == IF h.has_cookie /\ h.sid \in DOMAIN slast.pre THEN {h.sid} ELSE {}
        IN  /\ slast.outcome = "ok"
            /\ slast.cookie.set /\ ~slast.cookie.deleted
            /\ sid \notin DOMAIN slast.pre
            /\ DOMAIN sessions = (DOMAIN slast.pre \ carried) \cup {sid}
            /\ sessions[sid] = Session(slast.user, slast.time + SessionLifetime)
            /\ slast.cookie.expires = slast.time + SessionLifetime
            /\ \A t \in DOMAIN sessions \ {sid} : sessions[t] = slast.pre[t]
            /\ session_file = [exists |-> TRUE, data |-> sessions]

\* A login that presents the token of a session in the store, after the clock
\* has moved.
C11_Witness ==
    /\ slast.op = "create_session"
    /\ slast.headers.has_cookie
    /\ slast.headers.sid \in DOMAIN slast.pre
    /\ slast.headers.sid \notin DOMAIN sessions
    /\ slast.time > 0
    /\ Cardinality(DOMAIN sessions) = 1

(***************************************************************************)
(* C12.  Logout removes the session matching the incoming cookie if there  *)
(* is one, always returns a cookie-clearing instruction, whether or not a  *)
(* session matched and also when the request carries no cookie at all, and *)
(* is idempotent: a second logout with the same headers leaves the store   *)
(* as the first left it and yields the same response.                      *)
(* Violated: do_logout answers a request without a Cookie header with a    *)
(* bare 200 that carries no cookie.                                        *)
(***************************************************************************)
C12_LogoutClearsAndIdempotent ==
    slast.op = "do_logout" =>
        LET h == slast.headers
            again == do_logout(sessions, session_file, h)
        IN  /\ slast.outcome = "ok"
            /\ (h.has_cookie /\ h.sid # 0) => h.sid \notin DOMAIN sessions
            /\ slast.cookie = DeletedCookie
            /\ again.sessions = sessions
            /\ again.file = session_file
            /\ again.outcome = slast.outcome
            /\ again.cookie = slast.cookie

\* C12 where the request has a Cookie header: the cookie is cleared whether
\* or not a session matched.  Without a Cookie header the answer is 200 with
\* no cookie and nothing changes.  Idempotent in both cases.
C12_LogoutWithCookieHeader ==
    slast.op = "do_logout" =>
        LET h == slast.headers
            again == do_logout(sessions, session_file, h)
        IN  /\ slast.outcome = "ok"
            /\ (h.has_cookie /\ h.sid # 0) => h.sid \notin DOMAIN sessions
            /\ \A t \in DOMAIN slast.pre : t # h.sid => (t \in DOMAIN sessions /\ sessions[t] = slast.pre[t])
            /\ h.has_cookie => slast.cookie = DeletedCookie
            /\ ~h.has_cookie => (slast.cookie = NoCookie /\ sessions = slast.pre)
            /\ again.sessions = sessions
            /\ again.file = session_file
            /\ again.outcome = slast.outcome
            /\ again.cookie = slast.cookie

\* A logout without a Cookie header, while the store holds a session: 200 and
\* no cookie.
C12_Witness ==
    /\ slast.op = "do_logout"
    /\ ~slast.headers.has_cookie
    /\ slast.pre # <<>>
    /\ slast.outcome = "ok"
    /\ slast.cookie = NoCookie

(***************************************************************************)
(* C13.  Once a session has been destroyed by a logout, or replaced by a   *)
(* login that presented its token, authenticate with that token fails in   *)
(* every later state, also while its expiration has not passed.            *)
(***************************************************************************)
C13_DestroyedStaysDead ==
    /\ \A t \in DOMAIN destroyed : t \notin DOMAIN sessions
    /\ (/\ slast.op = "authenticate"
        /\ slast.headers.has_cookie
        /\ slast.headers.sid \in DOMAIN slast.pre_destroyed) =>
           slast.outcome = "Unauthorized"

\* authenticate with a destroyed token before the expiration it had, after
\* the clock has moved.
C13_Witness ==
    /\ slast.op = "authenticate"
    /\ slast.headers.has_cookie
    /\ slast.headers.sid \in DOMAIN slast.pre_destroyed
    /\ slast.time <= slast.pre_destroyed[slast.headers.sid]
    /\ slast.time > 0
    /\ slast.outcome = "Unauthorized"

(***************************************************************************)
(* The claims' terms for the web server.                                   *)
(***************************************************************************)
\* main has dispatched the request of the last connection: it passed the
\* rate check and parse_request.
Dispatched ==
    /\ conn.pc \in {"closed", "crashed"}
    /\ conn.req.raw = "ok"
    /\ conn.exc # "Exception"

\* The request is for /accountdetails, /createaccount, /deposit or /withdraw.
LedgerRoute(req) ==
    \/ (req.method = "GET" /\ req.resource = "/accountdetails")
    \/ (req.method = "POST" /\ req.resource \in {"/createaccount", "/deposit", "/withdraw"})

\* The headers name a session that is in the store `s` and has not expired.
LiveSession(s, headers, time) ==
    /\ headers.has_cookie
    /\ headers.sid \in DOMAIN s
    /\ time <= s[headers.sid].expiration

\* The last connection left the ledger and the session store as they were.
Untouched ==
    /\ accounts = conn.pre_db
    /\ sessions = conn.pre_sessions
    /\ session_file = conn.pre_file
    /\ ~conn.auth.called
    /\ ~conn.ledger.called

(***************************************************************************)
(* C14.  On /accountdetails, /createaccount, /deposit and /withdraw the     *)
(* ledger operation is called only after authenticate has succeeded for    *)
(* the request's headers, and with the user it returned; a request that    *)
(* main dispatches to these routes without a live session gets 401         *)
(* whatever its parameters, and the ledger is neither called nor changed.  *)
(***************************************************************************)
C14_AuthenticateBeforeLedger ==
    /\ conn.ledger.called =>
           /\ LedgerRoute(conn.req)
           /\ conn.auth.called
           /\ conn.auth.outcome = "ok"
           /\ LiveSession(conn.pre_sessions, conn.req.headers, conn.time)
           /\ conn.ledger.user = conn.pre_sessions[conn.req.headers.sid].user
           /\ conn.ledger.user = conn.auth.user
    /\ (/\ Dispatched
        /\ LedgerRoute(conn.req)
        /\ ~LiveSession(conn.pre_sessions, conn.req.headers, conn.time)) =>
           /\ conn.status = Unauthorized
           /\ ~conn.ledger.called
           /\ accounts = conn.pre_db

\* A deposit with valid parameters and the cookie of a session that expired.
C14_Witness ==
    /\ Dispatched
    /\ conn.req.resource = "/deposit"
    /\ conn.req.method = "POST"
    /\ conn.req.account_num = Dec(MinAcctNum)
    /\ conn.req.amount = Dec(1)
    /\ conn.req.headers.has_cookie
    /\ conn.req.headers.sid \in DOMAIN conn.pre_sessions
    /\ conn.status = Unauthorized
    /\ accounts = conn.pre_db

(***************************************************************************)
(* C15.  Every accepted connection is answered and closed, whatever error  *)
(* occurs while it is handled (rate limit, parse, authentication, ledger   *)
(* operation), and the server goes on to accept the next connection.       *)
(* Violated: main catches HttpErrorResponse only.  The rate check raises   *)
(* Exception at the tenth connection, decode raises UnicodeDecodeError,    *)
(* and the ledger's NameError and TypeError pass the handlers' except      *)
(* clauses: each ends main before sendall and close.                       *)
(***************************************************************************)
C15_EveryConnectionAnswered ==
    /\ conn.pc # "crashed"
    /\ conn.pc = "closed" => conn.status # 0

\* C15 for the connections on which no step raises anything but an
\* HttpErrorResponse.
C15_AnsweredUnlessUncaught ==
    /\ conn.pc = "crashed" => conn.exc # "none"
    /\ conn.pc = "closed" => (conn.status # 0 /\ conn.exc = "none")

C17_ValidationFailureIsOK ==
    (/\ Dispatched
     /\ conn.ledger.called
     /\ conn.ledger.outcome = "ValueError") =>
        conn.status = OK

(***************************************************************************)
(* C18.  deposit, withdraw and get_account on an account number that is    *)
(* not in the table fail, the response is 404 Not Found, and the table is  *)
(* unchanged.                                                              *)
(* Violated: the ledger raises ValueError for a missing account, which the *)
(* handlers answer with 400.                                               *)
(***************************************************************************)
C18_MissingAccountIsNotFound ==
    (/\ Dispatched
     /\ conn.ledger.called
     /\ conn.ledger.op \in {"deposit", "withdraw", "get_account"}
     /\ conn.req.account_num.v \notin DOMAIN conn.pre_db
     /\ (conn.ledger.op = "get_account" \/ ValidAmount(py_float(conn.req.amount).value))) =>
        /\ conn.ledger.outcome # "ok"
        /\ conn.status = NotFound
        /\ accounts = conn.pre_db

\* C18 without the status: the operation fails and the table is unchanged.
C18_MissingAccountFails ==
    (/\ Dispatched
     /\ conn.ledger.called
     /\ conn.ledger.op \in {"deposit", "withdraw", "get_account"}
     /\ conn.req.account_num.v \notin DOMAIN conn.pre_db
     /\ (conn.ledger.op = "get_account" \/ ValidAmount(py_float(conn.req.amount).value))) =>
        /\ conn.ledger.outcome = "ValueError"
        /\ conn.status = BadRequest
        /\ accounts = conn.pre_db

(***************************************************************************)
(* C19.  Routing is total over parsed requests: a POST to a path other     *)
(* than /createaccount, /deposit, /withdraw, /login, and a GET that matches *)
(* neither /accountdetails, /logout nor an existing file, is answered 404; *)
(* a request whose method is neither GET nor POST is answered 501; none of *)
(* these touches the session store or the ledger.                          *)
(***************************************************************************)
C19_RoutingTotal ==
    Dispatched =>
        LET req == conn.req
        IN  /\ (/\ req.method = "POST"
                /\ req.resource \notin {"/createaccount", "/deposit", "/withdraw", "/login"}) =>
                   (conn.status = NotFound /\ Untouched)
            /\ (/\ req.method = "GET"
                /\ req.resource \notin {"/accountdetails", "/accountdetailsx", "/logout"}
                /\ ~(html_file_pattern(req.resource) /\ is_file(req.resource))) =>
                   (conn.status = NotFound /\ Untouched)
            /\ req.method \notin {"GET", "POST"} =>
                   (conn.status = NotImplementedStatus /\ Untouched)

\* A GET of a file that is not an html, htm or css file, while a session is
\* in the store.
C19_Witness ==
    /\ Dispatched
    /\ conn.req.method = "GET"
    /\ conn.req.resource = "/server.py"
    /\ conn.pre_sessions # <<>>
    /\ conn.status = NotFound

(***************************************************************************)
(* C20.  The terms of the claim, read off the request text itself: its     *)
(* first line, the blank line, and the header lines between the two.       *)
(***************************************************************************)
Versions == {<<"1", ".", "0">>, <<"1", ".", "1">>, <<"2", ".", "0">>}

\* <METHOD> <non-whitespace path> HTTP/<1.0|1.1|2.0>, and nothing else.
ExactRequestLine(line) ==
    \E m \in Methods : \E v \in Versions : \E n \in 1..Len(line) :
        /\ Len(line) = Len(m) + 1 + n + 6 + 3
        /\ \A i \in 1..n : line[Len(m) + 1 + i] \notin Whitespace
        /\ line = m \o <<" ">> \o SubSeq(line, Len(m) + 2, Len(m) + 1 + n)
                    \o <<" ", "H", "T", "T", "P", "/">> \o v

\* Some line of the request is empty: a line break at the very start or
\* straight after another one.
HasBlankLine(request) ==
    \E i \in 1..Len(request) :
        /\ request[i] = "\n"
        /\ IF i = 1 THEN TRUE ELSE request[i - 1] = "\n"

\* The lines after the first, up to the first empty one.
HeaderLinesOf(request) ==
    LET ls == split(request, "\n")
        b == CHOOSE i \in 1..Len(ls) : ls[i] = <<>> /\ \A j \in 1..(i - 1) : ls[j] # <<>>
    IN  SubSeq(ls, 2, b - 1)

\* A header line with no ':' or with nothing after its first ':'.
BadHeaderLine(line) ==
    \A i \in 1..Len(line) : line[i] = ":" => (i = Len(line) /\ \A j \in 1..(i - 1) : line[j] # ":")

RejectedBy(request, Pattern(_)) ==
    IF request = <<>> THEN TRUE
    ELSE IF ~Pattern(split(request, "\n")[1]) THEN TRUE
    ELSE IF ~HasBlankLine(request) THEN TRUE
    ELSE \E i \in DOMAIN HeaderLinesOf(request) : BadHeaderLine(HeaderLinesOf(request)[i])

\* C20: parse_request raises BadRequest exactly when the request is empty,
\* its first line is not exactly <METHOD> <non-whitespace path>
\* HTTP/<1.0|1.1|2.0>, no blank line separates headers from body, or a header
\* line has no ':' or an empty value; in every other case it returns.
C20_BadRequestExactlyThen ==
    parse.phase = "parsed" =>
        /\ parse.result.exc \in {"none", "BadRequest"}
        /\ (parse.result.exc = "BadRequest") <=> RejectedBy(parse.request, ExactRequestLine)

\* C20, with the request line held to the pattern as the code writes it
\* (any character may stand where the version has its dot): parse_request
\* raises BadRequest exactly in the four cases, and returns otherwise.
C20_BadRequestByPatternAsWritten ==
    parse.phase = "parsed" =>
        /\ parse.result.exc \in {"none", "BadRequest"}
        /\ (parse.result.exc = "BadRequest")
               <=> RejectedBy(parse.request, VALID_REQUEST_LINE_PATTERN)

\* A request whose first line is not of the exact form, with a blank line
\* and no header, has been parsed and returned.
C20_Witness ==
    /\ parse.phase = "parsed"
    /\ parse.request # <<>>
    /\ ~ExactRequestLine(split(parse.request, "\n")[1])
    /\ parse.result.exc = "none"
    /\ parse.result.method = <<"G", "E", "T">>
    /\ parse.result.protocol \notin {<<"H", "T", "T", "P", "/">> \o v : v \in Versions}

\* A request with a good first line and a blank line has been refused for
\* one of its header lines.
C20_HeaderRefused ==
    /\ parse.phase = "parsed"
    /\ parse.result.exc = "BadRequest"
    /\ ExactRequestLine(split(parse.request, "\n")[1])
    /\ HasBlankLine(parse.request)

\* A request with two header fields and a body has been returned, the '+'
\* of its body turned into a space.
C20_Returned ==
    /\ parse.phase = "parsed"
    /\ parse.result.exc = "none"
    /\ DOMAIN parse.result.headers = {<<"H">>, <<"A">>}
    /\ parse.result.body = <<"a", " ", "b">>

(***************************************************************************)
(* C23, C29.  The row a deposit or withdraw leaves behind.                 *)
(***************************************************************************)
\* s is a prefix of t.
IsPrefix(s, t) == Len(s) <= Len(t) /\ SubSeq(t, 1, Len(s)) = s

\* A deposit or withdraw on a stored account has ended as `outcome`.
Ended(outcome) ==
    /\ last.op \in {"deposit", "withdraw"}
    /\ last.outcome = outcome
    /\ last.account_num.k = "int"
    /\ last.account_num.v \in DOMAIN last.pre
    /\ last.account_num.v \in DOMAIN accounts

\* C23: after a successful deposit or withdraw with a non-empty note the
\* stored notes are the previous notes, a blank line and the new note (just
\* the new note when there were none); with an empty note they are unchanged;
\* in every case the previous notes are a prefix of the new notes.
C23_NotesAppendOnly ==
    Ended("ok") =>
        LET old == last.pre[last.account_num.v].notes
            new == accounts[last.account_num.v].notes
        IN  /\ (last.notes # <<>> /\ old # <<>>) => new = old \o <<"\n\n">> \o last.notes
            /\ (last.notes # <<>> /\ old = <<>>) => new = last.notes
            /\ last.notes = <<>> => new = old
            /\ IsPrefix(old, new)

\* A successful deposit or withdraw has added a note to an account that had
\* notes already.
C23_Witness ==
    /\ Ended("ok")
    /\ last.notes # <<>>
    /\ last.pre[last.account_num.v].notes # <<>>
    /\ Len(accounts[last.account_num.v].notes) > Len(last.pre[last.account_num.v].notes)

\* The balance the call computed from the row it read.
Computed ==
    LET old == last.pre[last.account_num.v].balance
    IN  IF last.op = "deposit" THEN FAdd(old, last.amount) ELSE FSub(old, last.amount)

\* The table after one UPDATE of the call's account, and nothing else: the
\* store sets the balance of account 935370 to 0 and keeps NaN as NULL.
AfterOneWrite ==
    LET n == last.account_num.v
        old == last.pre[n]
    IN  [last.pre EXCEPT ![n] =
            [owner |-> old.owner,
             balance |-> IF n = QuirkAcctNum THEN Fin(0)
                         ELSE IF Computed.k = "nan" THEN Null ELSE Computed,
             notes |-> IF last.notes = <<>> THEN old.notes
                       ELSE IF old.notes = <<>> THEN last.notes
                       ELSE old.notes \o <<"\n\n">> \o last.notes]]

\* C29: an integrity failure is never retried: the call has written the store
\* once, and after the mismatch the table is the one that write left, with
\* no second write and the previous balance not put back.
C29_IntegrityFailureNotRetried ==
    Ended("RuntimeError") =>
        /\ last.io.wrote
        /\ accounts = AfterOneWrite

\* An integrity failure has left a balance other than the previous one.
C29_Witness ==
    /\ Ended("RuntimeError")
    /\ accounts[last.account_num.v].balance # last.pre[last.account_num.v].balance
    /\ accounts = AfterOneWrite

(***************************************************************************)
(* C24.  The 401 responses of authenticate and their Set-Cookie header.    *)
(***************************************************************************)
\* The last connection was answered 401 by authenticate.
Refused401 ==
    /\ Dispatched
    /\ conn.auth.called
    /\ conn.auth.outcome = "Unauthorized"
    /\ conn.status = Unauthorized

\* C24: every 401 response produced by authentication, whether the session
\* cookie is missing, the token is unknown or the session has expired,
\* carries an instruction that clears the client's session cookie.
C24_Every401ClearsCookie ==
    Refused401 => (conn.cookie.set /\ conn.cookie.deleted)

\* C24 for the expired session alone: its 401 clears the cookie.
C24_Expired401ClearsCookie ==
    (/\ Refused401
     /\ conn.req.headers.has_cookie
     /\ conn.req.headers.sid \in DOMAIN conn.pre_sessions) =>
        (conn.cookie.set /\ conn.cookie.deleted)

\* A request with the cookie of a session the store does not hold has been
\* answered 401 with no Set-Cookie header.
C24_Witness ==
    /\ Refused401
    /\ conn.req.headers.has_cookie
    /\ conn.req.headers.sid # 0
    /\ conn.req.headers.sid \notin DOMAIN conn.pre_sessions
    /\ ~conn.cookie.set

(***************************************************************************)
(* C25.  The rate check of main.                                           *)
(***************************************************************************)
\* main has run its loop body for the last connection.
Handled == conn.pc \in {"closed", "crashed"}

\* C25: a connection that takes the count to the limit is rejected with a 429
\* Too Many Requests response, and the connections under the limit are not
\* refused by the rate check.
C25_RateLimitedWith429 ==
    Handled =>
        /\ count >= RATE_LIMIT => (conn.pc = "closed" /\ conn.status = TooManyRequests)
        /\ count < RATE_LIMIT => conn.exc # "Exception"

\* C25 for the connections under the limit alone.
C25_UnderLimitNotRefused ==
    (Handled /\ count < RATE_LIMIT) => conn.exc # "Exception"

\* The tenth connection, more than an hour after the server started, has
\* ended the server with the rate check's exception and no response.
C25_Witness ==
    /\ conn.pc = "crashed"
    /\ conn.exc = "Exception"
    /\ conn.status = 0
    /\ count = RATE_LIMIT
    /\ conn.time > SessionLifetime

(***************************************************************************)
(* C30.  A login that fails.                                               *)
(***************************************************************************)
\* The credentials of the request match neither a row of the users table nor
\* the bypass pair.
NoMatch(req) ==
    /\ ~(req.username.s = get_SUPPORT_UN /\ req.password.s = get_SUPPORT_PW)
    /\ \A u \in Users :
           ~(u.username = req.username.s /\ u.password = Hashed(req.password.s, "salt"))

\* The last connection was a POST /login carrying a username and a password.
LoginAttempt ==
    /\ Dispatched
    /\ conn.req.method = "POST"
    /\ conn.req.resource = "/login"
    /\ conn.req.q = "params"
    /\ conn.req.username.present
    /\ conn.req.password.present

BypassAttempt ==
    /\ console.login_outcome # "none"
    /\ console.username = get_SUPPORT_UN
    /\ console.password = get_SUPPORT_PW

\* C21: login with the hardcoded bypass credentials always succeeds and
\* returns a user with role BANKER, whatever users the store contains
\* (including none); a session created from it passes the authorization check
\* of every ledger operation on every account.
C21_BypassIsBanker ==
    BypassAttempt =>
        /\ console.login_outcome = "ok"
        /\ console.user.is_user
        /\ console.user.role = "BANKER"
        /\ last.op # "none" =>
               /\ last.user = console.user
               /\ last.outcome # "PermissionError"

\* With no user stored, the bypass session has deposited into an account;
\* and with a stored customer of the bypass username, it has read one.
C21_Witness ==
    /\ BypassAttempt
    /\ console.users = {}
    /\ last.op = "deposit"
    /\ last.outcome = "ok"
    /\ last.account_num.v # console.user.account_num

C21_WitnessStoredAdmin ==
    /\ BypassAttempt
    /\ \E u \in console.users : u.username = get_SUPPORT_UN /\ u.user.role = "CUSTOMER"
    /\ last.op = "get_account"
    /\ last.outcome = "ok"
    /\ last.account_num.v = MinAcctNum

(***************************************************************************)
(* C22.  End to end at the console: a banker logs in, creates an account,  *)
(* deposits into it with a note and reads it; a customer linked to another *)
(* account reads it.  The amounts of the spec's example (100.0 and 50.0)   *)
(* are scaled to the model's floats (2 and 1).                             *)
(***************************************************************************)
\* The banker's create_account with a valid name and balance.
BankerCreates ==
    /\ last.op = "create_account"
    /\ last.user.is_user
    /\ last.user.role = "BANKER"
    /\ ValidOwnerName(last.owner_name)
    /\ ValidAmount(last.amount)

\* A get_account that succeeds straight after a successful deposit into the
\* same account.
ReadAfterDeposit ==
    /\ last.op = "get_account"
    /\ last.outcome = "ok"
    /\ console.prev.op = "deposit"
    /\ console.prev.account_num = last.account_num

\* A customer's get_account on a stored account that is not the customer's.
CustomerReadsAnother ==
    /\ last.op = "get_account"
    /\ last.user.is_user
    /\ last.user.role = "CUSTOMER"
    /\ last.account_num.v \in DOMAIN last.pre
    /\ last.pre[last.account_num.v].balance.k # "null"
    /\ last.user.account_num # last.account_num.v

\* The balance and notes read are those the deposit left.
ReadShowsDeposit ==
    /\ last.ret.balance = FAdd(console.prev.before, console.prev.amount)
    /\ console.prev.notes # <<>> =>
           \E i \in 1..Len(last.ret.notes) :
               SubSeq(last.ret.notes, i, i + Len(console.prev.notes) - 1) = console.prev.notes

\* C22: after a banker logs in, creates an account with a balance and
\* deposits into it with note 'payroll', get_account on that account returns
\* the sum and notes containing 'payroll'; a get_account on it from a session
\* of a customer linked to a different account is answered with
\* authorization-denied.
C22_EndToEnd ==
    /\ BankerCreates =>
           /\ last.outcome = "ok"
           /\ last.ret.account_num \in DOMAIN accounts
           /\ accounts[last.ret.account_num].balance = last.amount
    /\ ReadAfterDeposit => ReadShowsDeposit
    /\ CustomerReadsAnother => last.outcome = "PermissionError"

\* C22 from the deposit on, for an account that is in the table already.
C22_DepositThenRead ==
    /\ ReadAfterDeposit => ReadShowsDeposit
    /\ CustomerReadsAnother => last.outcome = "PermissionError"

\* The banker's create_account has ended in NameError and stored nothing.
C22_Witness ==
    /\ BankerCreates
    /\ BypassAttempt
    /\ last.outcome = "NameError"
    /\ accounts = last.pre
    /\ console.pc = "crashed"

\* 2 + 1 = 3 with the note, read back by the banker; and the customer of
\* account 100000 refused on account 935370.
C22_WitnessRead ==
    /\ ReadAfterDeposit
    /\ last.ret.balance = Fin(3)
    /\ last.ret.notes = <<"payroll">>

C22_WitnessRefused ==
    /\ CustomerReadsAnother
    /\ last.outcome = "PermissionError"
    /\ last.account_num.v = QuirkAcctNum

(***************************************************************************)
(* C27.  Two deposit/withdraw calls on one account from two processes.     *)
(***************************************************************************)
\* The balance after the call of process p on the balance b.
Applied(p, b) ==
    IF procs.of[p].op = "deposit" THEN FAdd(b, procs.of[p].amount)
    ELSE FSub(b, procs.of[p].amount)

\* Both processes have written the same account and returned.
BothWrote ==
    /\ \A p \in Procs : procs.of[p].pc = "done"
    /\ \A p \in Procs : procs.of[p].outcome \in {"ok", "RuntimeError"}
    /\ procs.of["server"].account_num = procs.of["console"].account_num

\* The stored balance is the one the two calls give when run one after the
\* other, in either order.
ReflectsBoth ==
    LET n == procs.of["server"].account_num
        b == procs.base[n].balance
    IN  accounts[n].balance \in {Applied("console", Applied("server", b)),
                                 Applied("server", Applied("console", b))}

C27_OneAfterTheOther ==
    (BothWrote /\ ~procs.overlap) =>
        \/ ReflectsBoth
        \/ \E p \in Procs : procs.of[p].outcome = "RuntimeError"

SomeUnused == \E n \in AcctNums : n \notin DOMAIN accounts
AllUsed == \A n \in AcctNums : n \in DOMAIN accounts

\* C28: while at least one number is unused, create_account's allocation
\* eventually returns (under fair random draws); when all numbers are in use
\* a banker's create_account never returns and never reports an error.
C28_ReturnsWhileUnused ==
    (alloc.pc = "loop" /\ SomeUnused) ~> (alloc.pc = "returned")

\* C28, second half, over every table: with all numbers in use the call has
\* neither returned nor raised.
C28_FullTableNeverEnds ==
    AllUsed => alloc.pc \notin {"returned", "raised"}

\* C28 as far as the loop goes: with a number unused the loop is left.
C28_LoopIsLeft ==
    (alloc.pc = "loop" /\ SomeUnused) ~> (alloc.pc # "loop")

\* C28 for a full table that holds no NULL balance: the loop is never left.
C28_FullTableLoopsForEver ==
    (AllUsed /\ \A n \in DOMAIN accounts : accounts[n].balance.k # "null") =>
        alloc.pc \notin {"returned", "raised"}

\* With a number unused, the call has left the loop with NameError; and with
\* every number in use, it has drawn MaxDraws times and is still in the loop.
C28_Witness ==
    /\ SomeUnused
    /\ alloc.pc = "raised"
    /\ alloc.outcome = "NameError"
    /\ alloc.new_id \notin DOMAIN accounts

C28_WitnessFull ==
    /\ AllUsed
    /\ alloc.pc = "loop"
    /\ alloc.draws = MaxDraws

\* With every number in use, the draw of a row whose balance is NULL has ended
\* the call in TypeError.
C28_WitnessFullRaises ==
    /\ AllUsed
    /\ alloc.pc = "raised"
    /\ alloc.outcome = "TypeError"

(***************************************************************************)
(* C26.  One connection at a time.                                         *)
(***************************************************************************)
InFlight == {c \in Clients : socks[c] = "accepted"}

\* C26: at any instant at most one connection is between accept and close.
C26_OneConnectionAtATime == Cardinality(InFlight) <= 1

\* C26: the accounts and the sessions change only in the step that serves the
\* one connection in flight, so no two mutations are in flight together.
C26_MutationsByTheOneInFlight ==
    [][(accounts' # accounts \/ sessions' # sessions) =>
        /\ Cardinality(InFlight) = 1
        /\ \A c \in InFlight : socks'[c] \in {"closed", "accepted"}]_vars

\* A connection is in flight while another waits, and the one before it
\* changed an account.
C26_Witness ==
    /\ Cardinality(InFlight) = 1
    /\ \E c \in Clients : socks[c] = "queued"
    /\ conn.pc = "accepted"
    /\ accounts # [n \in {MinAcctNum, QuirkAcctNum} |->
                      Row(IF n = MinAcctNum THEN Fin(1) ELSE Fin(0))]

(***************************************************************************)
(* C31, C32, C33.  The sessions of the store over their lifetime.          *)
(***************************************************************************)
\* authenticate has just returned a user for the token it was given.
AuthenticatedNow ==
    /\ slast.op = "authenticate"
    /\ slast.outcome = "ok"

\* C31: a successful authenticate returns exactly the user that was passed to
\* the create_session call that issued the presented token; the user bound to
\* a token in the store is, at all times, the user of that one call, and the
\* store holds for a token the one session made at its issue.
C31_TokenBoundToItsUser ==
    /\ \A t \in DOMAIN sessions :
        /\ t \in DOMAIN issued
        /\ issued[t] # NoIssue
        /\ sessions[t].user = issued[t].user
    /\ AuthenticatedNow =>
        /\ slast.headers.sid \in DOMAIN issued
        /\ slast.user = issued[slast.headers.sid].user

\* The customer's token is accepted while the store also holds a banker's,
\* after the clock has moved.
C31_Witness ==
    /\ AuthenticatedNow
    /\ slast.user = Customer(MinAcctNum)
    /\ \E t \in DOMAIN sessions : sessions[t].user = Banker
    /\ slast.time > issued[slast.headers.sid].time

\* C32: the expiration of a session is the time of its creation plus one hour
\* for as long as the session is in the store; a successful authenticate
\* leaves the store as it was, and none succeeds later than one hour after
\* the login that issued the token.
C32_ExpirationNeverExtended ==
    /\ \A t \in DOMAIN sessions :
        t \in DOMAIN issued /\ sessions[t].expiration = issued[t].time + SessionLifetime
    /\ AuthenticatedNow =>
        /\ sessions = slast.pre
        /\ slast.time <= issued[slast.headers.sid].time + SessionLifetime

\* A token is accepted in the last instant of its hour, the clock having
\* moved since the login: its session still expires at the time set then.
C32_Witness ==
    /\ AuthenticatedNow
    /\ slast.time = issued[slast.headers.sid].time + SessionLifetime
    /\ slast.time > 0
    /\ session_file = [exists |-> TRUE, data |-> sessions]
    /\ sessions[slast.headers.sid].expiration = slast.time

\* The call recorded in slast names token t: its headers carry it.
Names(t) == slast.headers.has_cookie /\ slast.headers.sid = t

\* C33: a session has left the store only by a logout or a login that
\* presented its token or by an authenticate with its token after its
\* expiration; every operation leaves the sessions of the tokens it does not
\* name as they were (a login adds the session of its new token), so that an
\* expired session nobody presents stays.
C33_LeavesOnlyWhenNamed ==
    slast.op # "none" =>
        /\ \A t \in DOMAIN slast.pre \ DOMAIN sessions :
            /\ Names(t)
            /\ \/ slast.op \in {"delete_session", "do_logout", "create_session"}
               \/ slast.op = "authenticate" /\ Expired(slast.pre[t], slast.time)
        /\ slast.op # "restart" =>
            /\ \A t \in DOMAIN slast.pre : ~Names(t) =>
                t \in DOMAIN sessions /\ sessions[t] = slast.pre[t]
            /\ \A t \in DOMAIN sessions \ DOMAIN slast.pre :
                slast.op = "create_session" /\ slast.cookie.value = t

\* An expired session is in the store after a call that named another token
\* and removed that one.
C33_Witness ==
    /\ slast.op \in {"authenticate", "do_logout", "create_session"}
    /\ \E t \in DOMAIN sessions :
        /\ ~Names(t)
        /\ t \in DOMAIN slast.pre
        /\ Expired(sessions[t], slast.time)
    /\ \E u \in DOMAIN slast.pre : u \notin DOMAIN sessions

\* An expired session is removed by the authenticate that presents it.
C33_WitnessPurged ==
    /\ slast.op = "authenticate"
    /\ \E t \in DOMAIN slast.pre : t \notin DOMAIN sessions /\ Names(t)

(***************************************************************************)
(* C34.  What the ledger's operations leave alone.                         *)
(***************************************************************************)
\* The exceptions of validation (TypeError, ValueError), of an account not
\* found (ValueError) and of authorization (PermissionError).
RefusalErrors == {"TypeError", "ValueError", "PermissionError"}

\* C34: a deposit, withdraw or create_account that ends in a validation,
\* not-found or authorization error, and every get_account, leaves all stored
\* accounts unchanged; a successful deposit or withdraw keeps the set of
\* accounts, every other account's row and the owner of its target.
C34_OnlyTheTargetChanges ==
    /\ (last.op \in {"deposit", "withdraw", "create_account"}
        /\ last.outcome \in RefusalErrors) => accounts = last.pre
    /\ last.op = "get_account" => accounts = last.pre
    /\ (last.op \in {"deposit", "withdraw"} /\ last.outcome = "ok") =>
        /\ DOMAIN accounts = DOMAIN last.pre
        /\ \A n \in DOMAIN accounts :
            n # last.account_num.v => accounts[n] = last.pre[n]
        /\ accounts[last.account_num.v].owner = last.pre[last.account_num.v].owner

\* A withdraw with notes has changed the balance and the notes of its target,
\* beside another account that holds money.
C34_Witness ==
    /\ last.op = "withdraw"
    /\ last.outcome = "ok"
    /\ accounts[last.account_num.v].balance # last.pre[last.account_num.v].balance
    /\ accounts[last.account_num.v].notes # last.pre[last.account_num.v].notes
    /\ \E n \in DOMAIN accounts :
        n # last.account_num.v /\ accounts[n].balance = Fin(2)

\* A customer's deposit into another's account is refused, and a read is
\* made, on a table that earlier calls have changed.
C34_WitnessRefused ==
    /\ last.op = "deposit"
    /\ last.outcome = "PermissionError"
    /\ \E n \in DOMAIN accounts : accounts[n].notes # <<>>

C34_WitnessRead ==
    /\ last.op = "get_account"
    /\ last.outcome = "ok"
    /\ last.ret.notes # <<>>

(***************************************************************************)
(* C35.  Existence is tested before authorization.                         *)
(***************************************************************************)
\* The call recorded in `last` is a customer's deposit, withdraw or
\* get_account on an account number that is not theirs, with arguments that
\* pass the checks made before the account is looked up.
CustomerOnAnothers ==
    /\ last.op \in {"deposit", "withdraw", "get_account"}
    /\ last.user.is_user
    /\ last.user.role = "CUSTOMER"
    /\ IsInt(last.account_num)
    /\ last.account_num.v # last.user.account_num
    /\ last.op # "get_account" => (IsFloat(last.amount) /\ AmountInRange(last.amount))

\* C35: for a customer the outcome on an account they do not own is the
\* not-found error when the account is missing and forbidden when it exists.
C35_NotFoundOrForbidden ==
    CustomerOnAnothers =>
        last.outcome = IF last.account_num.v \in DOMAIN last.pre
                       THEN "PermissionError"
                       ELSE "ValueError"

\* C35 for the accounts whose stored balance is not NULL.
C35_NotFoundOrForbiddenWithBalance ==
    (/\ CustomerOnAnothers
     /\ last.account_num.v \in DOMAIN last.pre =>
            last.pre[last.account_num.v].balance.k # "null") =>
        last.outcome = IF last.account_num.v \in DOMAIN last.pre
                       THEN "PermissionError"
                       ELSE "ValueError"

\* C35, the disclosure: whatever the stored balances, the outcome is
\* ValueError exactly when the account number is not in use.
C35_OutcomeRevealsExistence ==
    CustomerOnAnothers =>
        (last.outcome = "ValueError" <=> last.account_num.v \notin DOMAIN last.pre)

\* A customer is refused on an existing account of another, and is told that
\* a missing one does not exist; nothing was written.
C35_Witness ==
    /\ CustomerOnAnothers
    /\ last.account_num.v \in DOMAIN last.pre
    /\ last.outcome = "PermissionError"
    /\ accounts = last.pre

C35_WitnessMissing ==
    /\ CustomerOnAnothers
    /\ last.account_num.v \notin DOMAIN last.pre
    /\ last.outcome = "ValueError"

\* The existing account holds a NULL balance: the customer gets TypeError.
C35_WitnessNullBalance ==
    /\ CustomerOnAnothers
    /\ last.account_num.v \in DOMAIN last.pre
    /\ last.pre[last.account_num.v].balance.k = "null"
    /\ last.outcome = "TypeError"

\* C35 at the server, whose requests leave the balances of the accounts the
\* customer does not own in place: a customer's GET /accountdetails for an
\* account of another is answered 403 when the account exists and 400 when
\* it does not.
C35_ResponseRevealsExistence ==
    (/\ conn.pc = "closed"
     /\ conn.req.resource = "/accountdetails"
     /\ conn.ledger.called
     /\ conn.ledger.user.role = "CUSTOMER"
     /\ conn.req.account_num.v # conn.ledger.user.account_num) =>
        conn.status = IF conn.req.account_num.v \in DOMAIN conn.pre_db
                      THEN Forbidden
                      ELSE BadRequest

C35_WitnessResponse ==
    /\ conn.pc = "closed"
    /\ conn.req.resource = "/accountdetails"
    /\ conn.ledger.called
    /\ conn.ledger.user.role = "CUSTOMER"
    /\ conn.status = Forbidden
====
